---- MODULE Spec2Model ----
(***************************************************************************)
(* The language server of xstate-tools (apps/extension/server/src/server.ts)*)
(* as a state machine: the document cache, the displayed-machine reference *)
(* and the handlers of the connection.  Each handler is one action; what   *)
(* it sends and replies is recorded in `out`.                              *)
(*                                                                         *)
(* Spec is the server started without the configuration capability:        *)
(* getDocumentSettings then returns an already resolved promise, so the    *)
(* await of handleDocumentChange resumes before any other message is       *)
(* handled and a reconciliation is one step.  AsyncSpec is the server      *)
(* started with the capability: the await suspends the reconciliation      *)
(* until the client answers the configuration request.                     *)
(***************************************************************************)
EXTENDS Integers, Sequences, FiniteSets, TLC

VARIABLES
    documentsCache,    \* line 134: uri -> CachedDocument
    displayedMachine,  \* line 53: <<>> or <<[uri, machineIndex]>>
    out,               \* what the last handler sent and replied
    openDocuments,     \* connection.documents: the documents the editor has open
    documentSettings,  \* line 111: uri -> the promise of its settings
    promises,          \* promises[p]: the configuration request p was answered
    inFlight,          \* reconciliations suspended at the await of line 200
    editorText,        \* uri -> the text of the last content change, where
                       \* a specification follows it (AsyncSpec, ImplSpec)
    typegenService,    \* extension.ts line 120: the state of the interpreter
                       \* of throttledTypegenCreationMachine
    executing,         \* the callbacks of executeAction (lines 82-107) that
                       \* were started and have not finished
    fileSystem,        \* path -> the contents of the typegen file there
    received,          \* the update events the machine received since its
                       \* last entry to idle, in order of arrival
    clock,             \* the milliseconds since the machine last received
                       \* an update event, as far as the delay of line 75
    typegenCalls       \* initiateTypegen.ts: the calls of createTypegenFile,
                       \* each with its listener, deferred, timer and race

vars ==
    <<documentsCache, displayedMachine, out, openDocuments, documentSettings,
      promises, inFlight, editorText, typegenService, executing, fileSystem,
      received, clock, typegenCalls>>

\* the state of the client's throttled creation of typegen files
clientVars ==
    <<typegenService, executing, fileSystem, received, clock, typegenCalls>>

\* extension.ts line 75: the delay of the transition from throttling to
\* idle, in milliseconds
Delay == 500

\* the state only a server with the configuration capability changes
asyncVars == <<documentSettings, promises, inFlight>>

(***************************************************************************)
(* Bounds of the model.                                                    *)
(***************************************************************************)
\* machine-construction calls in one document text
MaxMachines == 2

\* documents the editor opens, and the URIs a client may name
Documents == {"file:///a.ts"}
Uris == Documents \cup {"file:///b.ts"}

\* machine indexes a client may name: one past the largest valid index
MachineIndexes == 0..MaxMachines

\* state paths a client may ask the position of: the root and one child
Paths == 0..1

SeqsUpTo(S, n) == UNION {[1..k -> S] : k \in 0..n}

(***************************************************************************)
(* One machine-construction call found in a text (MachineExtractResult).   *)
(*   ignored  the call carries the ignore marker                           *)
(*   def      the call has a definition argument                           *)
(*   opts     the call has an options argument                             *)
(*   typed    the definition has a tsTypes node                            *)
(*   valid    createMachine / getTypegenData accept the config             *)
(*   struct   the structure of the config (number of child states)         *)
(*   body     the text of the inline implementation bodies                 *)
(*   tnv      the value recorded at the tsTypes node (typesNode.value)     *)
(***************************************************************************)
AllMachines ==
    [ignored : BOOLEAN, def : BOOLEAN, opts : BOOLEAN, typed : BOOLEAN,
     valid : BOOLEAN, struct : 0..1, body : {"b0", "b1"}, tnv : 0..1]

\* A document text: whether it mentions a machine call at all, and the calls
\* in source order.
Texts ==
    LET
        Machines ==
            {m \in AllMachines :
                /\ ~m.opts
                /\ m.ignored => (m.def /\ ~m.typed /\ m.valid /\ m.struct = 0 /\ m.body = "b0")
                /\ ~m.def => (~m.typed /\ m.valid /\ m.struct = 0 /\ m.body = "b0")
                /\ ~m.typed => (m.tnv = 0 /\ m.struct = 0 /\ m.body = "b0")
                /\ ~m.valid => (m.tnv = 0 /\ m.struct = 0 /\ m.body = "b0")
                /\ m.body = "b1" => (m.struct = 0 /\ m.tnv = 0)
                /\ m.struct = 1 => m.tnv = 0}
    IN
    {[found |-> FALSE, machines |-> <<>>]}
        \cup [found : {TRUE}, machines : SeqsUpTo(Machines, MaxMachines)]

(***************************************************************************)
(* The extractor and the shared helpers.                                   *)
(***************************************************************************)
\* getMachineNodesFromFile(text) with getMachineExtractResult on each node:
\* every call of the text, ignored or not, in source order
getMachineNodesFromFile(text) ==
    LET
        \* The result of extracting the call at ordinal `at` of a text: what the call
        \* says, and where it is (the source locations of the result).
        MachineExtractResult(m, at) ==
            [ignored |-> m.ignored, def |-> m.def, opts |-> m.opts, typed |-> m.typed,
             valid |-> m.valid, struct |-> m.struct, body |-> m.body, tnv |-> m.tnv,
             at |-> at]
    IN
    [i \in 1..Len(text.machines) |-> MachineExtractResult(text.machines[i], i)]

\* extractMachinesFromFile(text): nothing, or the calls found
extractMachinesFromFile(text) ==
    IF text.found THEN <<[machines |-> getMachineNodesFromFile(text)]>> ELSE <<>>

\* filterOutIgnoredMachines(extracted).machines
filterOutIgnoredMachines(extracted) ==
    [machines |-> SelectSeq(extracted.machines, LAMBDA m : ~m.ignored)]

isTypedMachineResult(m) == m.typed

\* getTypegenData(basename, index, machineResult); throws for an invalid config
getTypegenData(uri, index, m) ==
    [typesNode |-> [value |-> m.tnv],
     data |-> [fileName |-> uri, index |-> index, tsTypesValue |-> index,
               surface |-> m.struct]]

\* machineResult.toConfig(opts); opts is "plain", "anonymize" or "hash"
toConfig(m, opts) ==
    LET
        UndefinedConfig == [defined |-> FALSE, struct |-> 0, body |-> "b0"]
    IN
    IF ~m.def THEN UndefinedConfig
    ELSE [defined |-> TRUE,
          struct |-> m.struct,
          body |-> IF opts = "anonymize" THEN "anonymous" ELSE m.body]

(***************************************************************************)
(* handleDocumentChange, piece by piece.                                   *)
(***************************************************************************)
\* lines 205-228: one extraction result; a throw becomes its configError
ExtractionResultOf(uri, index, m) ==
    LET
        \* what createMachine / getTypegenData throw for an invalid config
        ConfigErrorMessage == "Invalid config"
    IN
    IF ~m.valid
    THEN [machineResult |-> m, types |-> <<>>, configError |-> ConfigErrorMessage]
    ELSE IF isTypedMachineResult(m)
    THEN [machineResult |-> m, types |-> <<getTypegenData(uri, index, m)>>,
          configError |-> ""]
    ELSE [machineResult |-> m, types |-> <<>>, configError |-> ""]

\* a batch that loses the machine whose config is invalid
ExtractionResults_DropsInvalid(uri, machineResults) ==
    LET kept == SelectSeq(machineResults, LAMBDA m : m.valid)
    IN  [i \in 1..Len(kept) |-> ExtractionResultOf(uri, i - 1, kept[i])]

ExtractionResults(uri, machineResults) ==
    [i \in 1..Len(machineResults) |->
        ExtractionResultOf(uri, i - 1, machineResults[i])]

RECURSIVE Flatten(_)
Flatten(ss) == IF ss = <<>> THEN <<>> ELSE Head(ss) \o Flatten(Tail(ss))

\* lines 230-232 (and 297-299): the typegen data of the typed machines
TypesOf(extractionResults) ==
    Flatten([i \in 1..Len(extractionResults) |-> extractionResults[i].types])

\* lines 189-190
areTypesWritable(typegenData) ==
    typegenData.typesNode.value = typegenData.data.tsTypesValue

WritableData(extractionResults) ==
    LET w == SelectSeq(TypesOf(extractionResults), areTypesWritable)
    IN  [i \in 1..Len(w) |-> w[i].data]

ExtractionError(message) == [type |-> "extractionError", message |-> message]

Diagnostics(uri, computed) ==
    [type |-> "diagnostics", uri |-> uri, computed |-> computed]

\* a parse gap that erases the entry and clears the diagnostics
ExtractedNothing_Erases(prev, uri) ==
    [entry |-> <<>>, sent |-> <<Diagnostics(uri, FALSE)>>, path |-> "nothing"]

\* lines 197-199: the extractor found nothing
ExtractedNothing(prev, uri) ==
    [entry |-> prev, sent |-> <<>>, path |-> "nothing"]

\* an error that is never cleared
ErrorClearPart_Never(prev, idx) == <<>>

\* lines 248-257: the error-clear, sent when the previous entry at the
\* displayed index carried a configError
ErrorClearPart(prev, idx) ==
    IF prev # <<>> /\ prev[1].extractionResults[idx + 1].configError # ""
    THEN <<ExtractionError("undefined")>>
    ELSE <<>>

\* a comparison of the configs as written, inline bodies included
UpdatePart_ComparesBodies(prev, er, idx) ==
    LET updatedConfig == toConfig(er.machineResult, "plain") IN
    IF /\ updatedConfig.defined
       /\ prev # <<>>
       /\ toConfig(prev[1].extractionResults[idx + 1].machineResult, "plain")
            # toConfig(er.machineResult, "plain")
    THEN <<[type |-> "displayedMachineUpdated", config |-> updatedConfig]>>
    ELSE <<>>

\* lines 259-282: the live update, sent when the anonymized configs differ
UpdatePart(prev, er, idx) ==
    LET updatedConfig == toConfig(er.machineResult, "plain") IN
    IF /\ updatedConfig.defined
       /\ prev # <<>>
       /\ toConfig(prev[1].extractionResults[idx + 1].machineResult, "anonymize")
            # toConfig(er.machineResult, "anonymize")
    THEN <<[type |-> "displayedMachineUpdated", config |-> updatedConfig]>>
    ELSE <<>>

\* lines 239-283: what the displayed machine's consumer is told.
\* prev is the previously cached document (<<>> when there was none);
\* end is how the block is left.  Reading a slot past the end of
\* extractionResults yields undefined, and reading a property of it throws.
DisplayedMachinePart(prev, extractionResults, uri, dm) ==
    IF dm = <<>> \/ (dm # <<>> /\ dm[1].uri # uri)
    THEN [sent |-> <<>>, end |-> "continue"]
    ELSE LET idx == dm[1].machineIndex IN
    IF idx >= Len(extractionResults)
    THEN [sent |-> <<>>, end |-> "throw"]
    ELSE LET er == extractionResults[idx + 1] IN
    IF er.configError # ""
    THEN [sent |-> <<ExtractionError(er.configError)>>, end |-> "return"]
    ELSE IF prev # <<>> /\ idx >= Len(prev[1].extractionResults)
    THEN [sent |-> <<>>, end |-> "throw"]
    ELSE [sent |-> ErrorClearPart(prev, idx) \o UpdatePart(prev, er, idx),
          end |-> "continue"]

\* a payload of the in-sync types only
TypesPart_SendsWritableOnly(prev, extractionResults, uri) ==
    LET writable == WritableData(extractionResults) IN
    IF /\ writable # <<>>
       /\ \/ prev = <<>>
          \/ (prev # <<>> /\ WritableData(prev[1].extractionResults) # writable)
    THEN <<[type |-> "typesUpdated", uri |-> uri,
            types |-> SelectSeq(TypesOf(extractionResults), areTypesWritable)]>>
    ELSE <<>>

\* a notification sent whenever there are in-sync types
TypesPart_IgnoresPrevious(prev, extractionResults, uri) ==
    IF WritableData(extractionResults) # <<>>
    THEN <<[type |-> "typesUpdated", uri |-> uri,
            types |-> TypesOf(extractionResults)]>>
    ELSE <<>>

\* lines 293-309
TypesPart(prev, extractionResults, uri) ==
    LET writable == WritableData(extractionResults) IN
    IF /\ writable # <<>>
       /\ \/ prev = <<>>
          \/ (prev # <<>> /\ WritableData(prev[1].extractionResults) # writable)
    THEN <<[type |-> "typesUpdated", uri |-> uri,
            types |-> TypesOf(extractionResults)]>>
    ELSE <<>>

\* a catch that tells the consumer whatever document is displayed
CatchPart_NotifiesAlways(uri, dm, message) ==
    <<ExtractionError(message), Diagnostics(uri, FALSE)>>

\* lines 310-317
CatchPart(uri, dm, message) ==
    (IF dm # <<>> /\ dm[1].uri = uri THEN <<ExtractionError(message)>> ELSE <<>>)
        \o <<Diagnostics(uri, FALSE)>>

\* lines 192-318: the new cache entry of uri (<<>>: none), the notifications
\* sent in order, and the path taken through the handler
Reconcile(prev, uri, text, dm) ==
    LET extracted == extractMachinesFromFile(text) IN
    IF extracted = <<>> THEN ExtractedNothing(prev, uri)
    ELSE
    LET machineResults == filterOutIgnoredMachines(extracted[1]).machines
        extractionResults == ExtractionResults(uri, machineResults)
        entry == [documentText |-> text, extractionResults |-> extractionResults]
        shown == DisplayedMachinePart(prev, extractionResults, uri, dm)
    IN  CASE shown.end = "return" ->
               [entry |-> <<entry>>, sent |-> shown.sent, path |-> "returned"]
          [] shown.end = "throw" ->
               [entry |-> <<entry>>,
                sent |-> shown.sent \o CatchPart(uri, dm, "TypeError"),
                path |-> "caught"]
          [] OTHER ->
               [entry |-> <<entry>>,
                sent |-> shown.sent \o <<Diagnostics(uri, TRUE)>>
                           \o TypesPart(prev, extractionResults, uri),
                path |-> "completed"]

(***************************************************************************)
(* The state and the handlers.                                             *)
(***************************************************************************)
\* the notifications of one type among those a handler sent
NotesOf(o, type) == SelectSeq(o.sent, LAMBDA n : n.type = type)

NoReply == [kind |-> "none"]

\* What the last handler did: the notifications it sent, in order, the path it
\* took and its reply; arg is the index or path a request named.
Out(op, uri, sent, path, reply) ==
    [op |-> op, uri |-> uri, arg |-> 0, sent |-> sent, path |-> path,
     reply |-> reply]

Init ==
    /\ documentsCache = <<>>
    /\ displayedMachine = <<>>
    /\ out = Out("init", "", <<>>, "", NoReply)
    /\ openDocuments = {}
    /\ documentSettings = <<>>
    /\ promises = <<>>
    /\ inFlight = <<>>
    /\ editorText = <<>>
    /\ typegenService = [value |-> "idle", context |-> [eventMap |-> <<>>],
                         delayed |-> <<>>]
    /\ executing = <<>>
    /\ fileSystem = <<>>
    /\ received = <<>>
    /\ clock = Delay
    /\ typegenCalls = <<>>

\* documentsCache.get(uri): <<>> when undefined
CacheGet(uri) ==
    IF uri \in DOMAIN documentsCache THEN <<documentsCache[uri]>> ELSE <<>>

CacheSet(uri, entry) ==
    [u \in DOMAIN documentsCache \cup {uri} |->
        IF u = uri THEN entry ELSE documentsCache[u]]

CacheDelete(uri) ==
    [u \in DOMAIN documentsCache \ {uri} |-> documentsCache[u]]

\* lines 320-322, 192-318
HandleDocumentChange(uri, text) ==
    LET r == Reconcile(CacheGet(uri), uri, text, displayedMachine) IN
    /\ documentsCache' =
           IF r.entry = <<>> THEN CacheDelete(uri) ELSE CacheSet(uri, r.entry[1])
    /\ out' = Out("handleDocumentChange", uri, r.sent, r.path, NoReply)
    /\ openDocuments' = openDocuments \cup {uri}
    /\ UNCHANGED <<displayedMachine, asyncVars, editorText, clientVars>>

\* a close that forgets the cache entry and keeps the settings
DidClose_KeepsSettings(uri) ==
    /\ uri \in openDocuments
    /\ openDocuments' = openDocuments \ {uri}
    /\ documentsCache' = CacheDelete(uri)
    /\ out' = Out("didClose", uri, <<>>,
                  IF uri \in DOMAIN documentsCache THEN "deleted" ELSE "absent",
                  NoReply)
    /\ UNCHANGED <<displayedMachine, documentSettings, promises, inFlight, editorText, clientVars>>

\* lines 129-132; the editor closes a document it has open.  path records
\* what documentsCache.delete returned.
DidClose(uri) ==
    LET
        SettingsDelete(theUri) ==
            [u \in DOMAIN documentSettings \ {theUri} |-> documentSettings[u]]
    IN
    /\ uri \in openDocuments
    /\ openDocuments' = openDocuments \ {uri}
    /\ documentsCache' = CacheDelete(uri)
    /\ documentSettings' = SettingsDelete(uri)
    /\ out' = Out("didClose", uri, <<>>,
                  IF uri \in DOMAIN documentsCache THEN "deleted" ELSE "absent",
                  NoReply)
    /\ UNCHANGED <<displayedMachine, promises, inFlight, editorText, clientVars>>

\* a reference that always names the first machine of the document
SetDisplayedMachine_IgnoresIndex(uri, machineIndex) ==
    /\ displayedMachine' = <<[uri |-> uri, machineIndex |-> 0]>>
    /\ out' = [Out("setDisplayedMachine", uri, <<>>, "", NoReply)
               EXCEPT !.arg = machineIndex]
    /\ UNCHANGED <<documentsCache, openDocuments, asyncVars, editorText, clientVars>>

\* lines 765-767
SetDisplayedMachine(uri, machineIndex) ==
    /\ displayedMachine' = <<[uri |-> uri, machineIndex |-> machineIndex]>>
    /\ out' = [Out("setDisplayedMachine", uri, <<>>, "", NoReply)
               EXCEPT !.arg = machineIndex]
    /\ UNCHANGED <<documentsCache, openDocuments, asyncVars, editorText, clientVars>>

\* lines 769-771
ClearDisplayedMachine ==
    /\ displayedMachine' = <<>>
    /\ out' = Out("clearDisplayedMachine", "", <<>>, "", NoReply)
    /\ UNCHANGED <<documentsCache, openDocuments, asyncVars, editorText, clientVars>>

\* A request that fails: the error the handler throws is the reply.
Failure(message) == [kind |-> "error", message |-> message]

\* a TypeError raised by reading a property of undefined: the request fails
\* with it instead of with one of the handler's own errors
Fault == [kind |-> "fault", name |-> "TypeError"]

\* line 585
NoMachinesMessage ==
    [text |-> "There were no machines recognized in this document"]

\* lines 582-611.  extractionResults[machineIndex] is undefined for an index
\* past the end, so reading its machineResult (line 590) throws before the
\* check of line 592; a slot that exists always holds a machineResult.
GetMachineAtIndexReply(cachedDocument, machineIndex) ==
    IF cachedDocument = <<>> \/ Len(cachedDocument[1].extractionResults) = 0
    THEN Failure(NoMachinesMessage)
    ELSE IF machineIndex >= Len(cachedDocument[1].extractionResults)
    THEN Fault
    ELSE LET machineResult ==
                 cachedDocument[1].extractionResults[machineIndex + 1].machineResult
         IN  [kind |-> "ok", config |-> toConfig(machineResult, "hash")]

GetMachineAtIndex(uri, machineIndex) ==
    /\ out' = [Out("getMachineAtIndex", uri, <<>>, "",
                   GetMachineAtIndexReply(CacheGet(uri), machineIndex))
               EXCEPT !.arg = machineIndex]
    /\ UNCHANGED <<documentsCache, displayedMachine, openDocuments, asyncVars, editorText, clientVars>>

Undefined == [kind |-> "undefined"]

\* lines 730-763
GetNodePositionReply(dm, path) ==
    LET
        \* machineResult.getStateNodeByPath(path): the node's position, or nothing
        getStateNodeByPath(m, thePath) ==
            IF m.def /\ thePath <= m.struct THEN <<[path |-> thePath]>> ELSE <<>>
    IN
    IF dm = <<>> THEN Undefined
    ELSE LET cachedDocument == CacheGet(dm[1].uri) IN
    IF cachedDocument = <<>> THEN Undefined
    ELSE IF dm[1].machineIndex >= Len(cachedDocument[1].extractionResults)
    THEN Fault
    ELSE LET node ==
                 getStateNodeByPath(
                     cachedDocument[1].extractionResults[dm[1].machineIndex + 1]
                         .machineResult,
                     path)
         IN  IF node = <<>> THEN Undefined
             ELSE [kind |-> "ok", node |-> node[1]]

GetNodePosition(path) ==
    /\ out' = [Out("getNodePosition", "", <<>>, "",
                   GetNodePositionReply(displayedMachine, path))
               EXCEPT !.arg = path]
    /\ UNCHANGED <<documentsCache, displayedMachine, openDocuments, asyncVars, editorText, clientVars>>

(***************************************************************************)
(* Where a call is in its text.  The call at ordinal k is written on one   *)
(* line of its own, followed by a line without a call; lines count from 1  *)
(* in a source location and from 0 in a cursor position.                   *)
(***************************************************************************)
LineOf(at) == 2 * at - 1

SourceLocation(line, columns) ==
    [start |-> [line |-> line, column |-> columns.start],
     end |-> [line |-> line, column |-> columns.end]]

\* machineResult.machineCallResult.definition?.node?.loc (<<>>: undefined)
DefinitionLoc(m) ==
    LET
        DefinitionColumns == [start |-> 1, end |-> 2]
    IN
    IF m.def THEN <<SourceLocation(LineOf(m.at), DefinitionColumns)>> ELSE <<>>

\* machineResult.machineCallResult.options?.node?.loc (<<>>: undefined)
OptionsLoc(m) ==
    LET
        OptionsColumns == [start |-> 4, end |-> 5]
    IN
    IF m.opts THEN <<SourceLocation(LineOf(m.at), OptionsColumns)>> ELSE <<>>

\* cursor positions a client may name: every line of the longest text, before
\* the definition, in the definition and in the options
Positions == [line : 0..(2 * MaxMachines - 1), column : {0, 1, 4}]

\* isCursorInPosition(nodeSourceLocation, cursorPosition)
isCursorInPosition(nodeSourceLocation, cursorPosition) ==
    IF nodeSourceLocation = <<>> THEN FALSE
    ELSE LET loc == nodeSourceLocation[1]
             isOnSameLine == loc.start.line - 1 = cursorPosition.line
             isWithinChars ==
                 /\ cursorPosition.column >= loc.start.column
                 /\ cursorPosition.column <= loc.end.column
             isWithinLines ==
                 /\ cursorPosition.line >= loc.start.line - 1
                 /\ cursorPosition.line <= loc.end.line
         IN  IF isOnSameLine THEN isWithinChars ELSE isWithinLines

\* line 642: `Machine at position ${JSON.stringify(position)} was not found`
PositionNotFoundMessage(position) ==
    [text |-> "Machine at position was not found", position |-> position]

\* lines 622-638: Array.prototype.findIndex with the cursor test, counting
\* from 0; -1 when no element passes
RECURSIVE FindIndexFrom(_, _, _)
FindIndexFrom(extractionResults, position, i) ==
    IF i > Len(extractionResults) THEN -1
    ELSE IF \/ isCursorInPosition(
                   DefinitionLoc(extractionResults[i].machineResult), position)
            \/ isCursorInPosition(
                   OptionsLoc(extractionResults[i].machineResult), position)
         THEN i - 1
    ELSE FindIndexFrom(extractionResults, position, i + 1)

\* lines 613-663
GetMachineAtCursorPositionReply(cachedDocument, position) ==
    IF cachedDocument = <<>> \/ Len(cachedDocument[1].extractionResults) = 0
    THEN Failure(NoMachinesMessage)
    ELSE LET machineResultIndex ==
                 FindIndexFrom(cachedDocument[1].extractionResults, position, 1)
         IN  IF machineResultIndex = -1
             THEN Failure(PositionNotFoundMessage(position))
             ELSE [kind |-> "ok",
                   config |->
                       toConfig(
                           cachedDocument[1].extractionResults[
                               machineResultIndex + 1].machineResult,
                           "hash"),
                   machineIndex |-> machineResultIndex]

GetMachineAtCursorPosition(uri, position) ==
    /\ out' = [Out("getMachineAtCursorPosition", uri, <<>>, "",
                   GetMachineAtCursorPositionReply(CacheGet(uri), position))
               EXCEPT !.arg = position]
    /\ UNCHANGED <<documentsCache, displayedMachine, openDocuments, asyncVars, editorText, clientVars>>

(***************************************************************************)
(* applyMachineEdits.                                                      *)
(***************************************************************************)
\* what a visual-editor edit sets the structure of the config to
MachineEdits == 0..1

\* text.slice(0, range[0].index) + newText + text.slice(range[1].index)
SpliceText(text, range, newText) ==
    [text EXCEPT !.machines =
        [i \in 1..Len(text.machines) |->
            IF i = range THEN newText ELSE text.machines[i]]]

\* line 668
NoDisplayedMachineMessage ==
    [text |-> "applyMachineEdits can only be requested when there is a displayed machine"]

\* lines 665-707: the reply, and the new cache.  The cache entry of the
\* displayed document is read without a check (line 672), and so is the slot
\* at the displayed index (lines 675-677).  The slot is re-extracted from
\* machineNodes[displayedMachine.machineIndex], the nodes of every call of the
\* new text (line 685), ignored ones included.
ApplyMachineEditsResult(dm, machineEdits) ==
    LET
        \* machineResult.modify(machineEdits): the range of the call to replace and
        \* the text to put there
        modify(m, theEdits) ==
            LET
                \* the text of a call, read back from its extraction result
                CallText(node) ==
                    [ignored |-> node.ignored, def |-> node.def, opts |-> node.opts, typed |-> node.typed,
                     valid |-> node.valid, struct |-> node.struct, body |-> node.body, tnv |-> node.tnv]
            IN
            [range |-> m.at, newText |-> [CallText(m) EXCEPT !.struct = theEdits]]
    IN
    IF dm = <<>>
    THEN [reply |-> Failure(NoDisplayedMachineMessage), cache |-> documentsCache]
    ELSE LET cachedDocument == CacheGet(dm[1].uri)
             idx == dm[1].machineIndex
         IN
    IF cachedDocument = <<>> \/ idx >= Len(cachedDocument[1].extractionResults)
    THEN [reply |-> Fault, cache |-> documentsCache]
    ELSE LET modified ==
                 modify(cachedDocument[1].extractionResults[idx + 1].machineResult,
                        machineEdits)
             newDocumentText ==
                 SpliceText(cachedDocument[1].documentText, modified.range,
                            modified.newText)
             machineNodes == getMachineNodesFromFile(newDocumentText)
         IN  [reply |->
                  [kind |-> "ok",
                   textEdits |->
                       <<[type |-> "replace", uri |-> dm[1].uri,
                          range |-> modified.range,
                          newText |-> modified.newText]>>],
              cache |->
                  CacheSet(dm[1].uri,
                      [cachedDocument[1] EXCEPT
                          !.extractionResults[idx + 1].machineResult =
                              machineNodes[idx + 1]])]

\* an edit that also republishes the diagnostics of the document
ApplyMachineEdits_AlsoPublishes(machineEdits) ==
    LET r == ApplyMachineEditsResult(displayedMachine, machineEdits) IN
    /\ documentsCache' = r.cache
    /\ out' = [Out("applyMachineEdits", "",
                   IF r.reply.kind = "ok"
                   THEN <<Diagnostics(displayedMachine[1].uri, TRUE)>>
                   ELSE <<>>,
                   "", r.reply)
               EXCEPT !.arg = machineEdits]
    /\ UNCHANGED <<displayedMachine, openDocuments, asyncVars, editorText, clientVars>>

ApplyMachineEdits(machineEdits) ==
    LET r == ApplyMachineEditsResult(displayedMachine, machineEdits) IN
    /\ documentsCache' = r.cache
    /\ out' = [Out("applyMachineEdits", "", <<>>, "", r.reply)
               EXCEPT !.arg = machineEdits]
    /\ UNCHANGED <<displayedMachine, openDocuments, asyncVars, editorText, clientVars>>

\* lines 709-728
GetTsTypesAndEditsReply(cachedDocument, uri) ==
    LET
        \* getTsTypesEdits(types): one edit of the tsTypes node per typed machine
        getTsTypesEdits(types) ==
            [i \in 1..Len(types) |-> [index |-> types[i].data.index]]
    IN
    IF cachedDocument = <<>>
    THEN [kind |-> "ok", types |-> <<>>, edits |-> <<>>]
    ELSE LET types == TypesOf(cachedDocument[1].extractionResults)
             edits == getTsTypesEdits(types)
         IN  [kind |-> "ok",
              types |-> types,
              edits |-> [i \in 1..Len(edits) |->
                            [type |-> "replace", uri |-> uri,
                             index |-> edits[i].index]]]

GetTsTypesAndEdits(uri) ==
    /\ out' = Out("getTsTypesAndEdits", uri, <<>>, "",
                  GetTsTypesAndEditsReply(CacheGet(uri), uri))
    /\ UNCHANGED <<documentsCache, displayedMachine, openDocuments, asyncVars, editorText, clientVars>>

(***************************************************************************)
(* EditSpec: the server without the configuration capability, with the     *)
(* requests of the visual editor, over texts of fewer kinds of call.       *)
(***************************************************************************)
EditTexts ==
    LET
        \* an ignored call; a call with no definition; a call with a definition, with
        \* and without options; a typed call in sync at index 0
        EditMachines ==
            {m \in AllMachines :
                /\ m.valid /\ m.struct = 0 /\ m.body = "b0" /\ m.tnv = 0
                /\ m.ignored => (m.def /\ ~m.opts /\ ~m.typed)
                /\ ~m.def => (~m.opts /\ ~m.typed)
                /\ m.typed => ~m.opts}
    IN
    {[found |-> FALSE, machines |-> <<>>]}
        \cup [found : {TRUE}, machines : SeqsUpTo(EditMachines, MaxMachines)]

EditNext ==
    \/ \E uri \in Documents, text \in EditTexts : HandleDocumentChange(uri, text)
    \/ \E uri \in Documents : DidClose(uri)
    \/ \E uri \in Uris, i \in MachineIndexes : SetDisplayedMachine(uri, i)
    \/ ClearDisplayedMachine
    \/ \E machineEdits \in MachineEdits : ApplyMachineEdits(machineEdits)
    \/ \E uri \in Uris, position \in Positions :
           GetMachineAtCursorPosition(uri, position)
    \/ \E uri \in Uris : GetTsTypesAndEdits(uri)
    \/ \E path \in Paths : GetNodePosition(path)

EditSpec == Init /\ [][EditNext]_vars

(***************************************************************************)
(* AsyncSpec: the server started with the configuration capability.        *)
(* getDocumentSettings asks the client for the settings of a document and  *)
(* caches the promise; handleDocumentChange is suspended at its await      *)
(* until the promise is fulfilled, and other messages are handled in       *)
(* between.  A continuation whose promise is fulfilled runs before the     *)
(* next message is handled.                                                *)
(***************************************************************************)
\* configuration requests the server sends in one behaviour
MaxPromises == 2

\* reconciliations suspended at the same time
MaxInFlight == 2

\* lines 113-127 with hasConfigurationCapability: the promise of the settings
\* of resource, and the settings cache and the promises after the call
getDocumentSettings(resource) ==
    IF resource \in DOMAIN documentSettings
    THEN [promise |-> documentSettings[resource],
          documentSettings |-> documentSettings,
          promises |-> promises]
    ELSE [promise |-> Len(promises) + 1,
          documentSettings |->
              [u \in DOMAIN documentSettings \cup {resource} |->
                  IF u = resource THEN Len(promises) + 1
                  ELSE documentSettings[u]],
          promises |-> Append(promises, FALSE)]

\* lines 320-322, 192-203: a content change runs handleDocumentChange up to
\* the await of line 200
DidChangeContent(uri, text) ==
    /\ openDocuments' = openDocuments \cup {uri}
    /\ UNCHANGED clientVars
    /\ editorText' = [u \in DOMAIN editorText \cup {uri} |->
                          IF u = uri THEN text ELSE editorText[u]]
    /\ UNCHANGED <<documentsCache, displayedMachine>>
    /\ IF extractMachinesFromFile(text) = <<>>
       THEN /\ out' = Out("handleDocumentChange", uri,
                          ExtractedNothing(CacheGet(uri), uri).sent, "nothing",
                          NoReply)
            /\ UNCHANGED asyncVars
       ELSE LET settings == getDocumentSettings(uri) IN
            /\ Len(inFlight) < MaxInFlight
            /\ Len(settings.promises) <= MaxPromises
            /\ documentSettings' = settings.documentSettings
            /\ promises' = settings.promises
            /\ inFlight' =
                   Append(inFlight,
                          [uri |-> uri, text |-> text,
                           previouslyCachedDocument |-> CacheGet(uri),
                           promise |-> settings.promise])
            /\ out' = Out("didChangeContent", uri, <<>>, "suspended", NoReply)

\* the client answers configuration request p
ConfigurationArrives(p) ==
    /\ p \in 1..Len(promises)
    /\ ~promises[p]
    /\ promises' = [promises EXCEPT ![p] = TRUE]
    /\ out' = Out("configuration", "", <<>>, "", NoReply)
    /\ UNCHANGED <<documentsCache, displayedMachine, openDocuments,
                   documentSettings, inFlight, editorText, clientVars>>

\* the suspended reconciliations that can continue
Runnable == {i \in 1..Len(inFlight) : promises[inFlight[i].promise]}

RemoveAt(seq, i) == SubSeq(seq, 1, i - 1) \o SubSeq(seq, i + 1, Len(seq))

\* lines 205-318: the first reconciliation whose promise is fulfilled goes on
\* after its await, with the previouslyCachedDocument it read at line 193
Resume ==
    /\ Runnable # {}
    /\ LET i == CHOOSE j \in Runnable : \A k \in Runnable : j <= k
           r == Reconcile(inFlight[i].previouslyCachedDocument, inFlight[i].uri,
                          inFlight[i].text, displayedMachine)
       IN  /\ documentsCache' = CacheSet(inFlight[i].uri, r.entry[1])
           /\ out' = Out("handleDocumentChange", inFlight[i].uri, r.sent,
                         r.path, NoReply)
           /\ inFlight' = RemoveAt(inFlight, i)
    /\ UNCHANGED <<displayedMachine, openDocuments, documentSettings, promises, editorText, clientVars>>

\* texts with at most one call: no call found, no call left after filtering
\* (none written, or an ignored one), a call with a definition
AsyncTexts ==
    {t \in EditTexts :
        /\ Len(t.machines) <= 1
        /\ \A i \in 1..Len(t.machines) :
              /\ t.machines[i].def
              /\ ~t.machines[i].opts
              /\ ~t.machines[i].typed}

AsyncIndexes == 0..1

AsyncPositions == {p \in Positions : p.line <= 1 /\ p.column = 1}

\* a message is handled only when no continuation can run
AsyncNext ==
    \/ Resume
    \/ \E p \in 1..MaxPromises : Runnable = {} /\ ConfigurationArrives(p)
    \/ \E uri \in Documents, text \in AsyncTexts :
           Runnable = {} /\ DidChangeContent(uri, text)
    \/ \E uri \in Documents : Runnable = {} /\ DidClose(uri)
    \/ \E uri \in Documents : Runnable = {} /\ SetDisplayedMachine(uri, 0)
    \/ \E uri \in Uris, i \in AsyncIndexes :
           Runnable = {} /\ GetMachineAtIndex(uri, i)
    \/ \E uri \in Uris, position \in AsyncPositions :
           Runnable = {} /\ GetMachineAtCursorPosition(uri, position)

AsyncSpec == Init /\ [][AsyncNext]_vars

(***************************************************************************)
(* TypegenSpec: the server without the configuration capability and the    *)
(* typegen part of the client (initiateTypegen.ts), for a source file and  *)
(* a file whose name carries the suffix of generated files.                *)
(***************************************************************************)
TypegenDocuments == {"file:///a.ts", "file:///a.typegen.ts"}

\* uri.includes('.typegen.')
IncludesTypegen(uri) == uri \in {"file:///a.typegen.ts", "file:///a.typegen.typegen.ts"}

\* initiateTypegen.ts lines 24-73: the generated file is created, overwriting
\* the one there was
createTypegenFile(uri, types) ==
    LET
        \* initiateTypegen.ts lines 30-34: the path without its extension, followed
        \* by '.typegen.ts'
        TypegenUri(theUri) ==
            CASE theUri = "file:///a.ts" -> "file:///a.typegen.ts"
              [] theUri = "file:///a.typegen.ts" -> "file:///a.typegen.typegen.ts"
              [] OTHER -> "file:///b.typegen.ts"
    IN
    [type |-> "createFile", uri |-> TypegenUri(uri), source |-> uri,
     types |-> types]

\* initiateTypegen.ts lines 81-115: the editor is about to save a document;
\* sent holds the request made to the server and the file created, reply the
\* edits handed to the editor
WillSaveTextDocument(uri) ==
    /\ uri \in openDocuments
    /\ LET answer == GetTsTypesAndEditsReply(CacheGet(uri), uri)
           request == [type |-> "getTsTypesAndEdits", uri |-> uri]
       IN  out' =
             IF IncludesTypegen(uri)
             THEN Out("willSaveTextDocument", uri, <<>>, "", [kind |-> "ok", edits |-> <<>>])
             ELSE IF answer.types = <<>>
             THEN Out("willSaveTextDocument", uri, <<request>>, "",
                      [kind |-> "ok", edits |-> <<>>])
             ELSE Out("willSaveTextDocument", uri,
                      <<request, createTypegenFile(uri, answer.types)>>, "",
                      [kind |-> "ok", edits |-> answer.edits])
    /\ UNCHANGED <<documentsCache, displayedMachine, openDocuments, asyncVars, editorText, clientVars>>

\* initiateTypegen.ts lines 118-123: the client receives the typesUpdated
\* notification the last reconciliation sent
OnTypesUpdated ==
    /\ out.op = "handleDocumentChange"
    /\ NotesOf(out, "typesUpdated") # <<>>
    /\ LET note == NotesOf(out, "typesUpdated")[1] IN
       out' = Out("typesUpdated", note.uri,
                  <<createTypegenFile(note.uri, note.types)>>, "", NoReply)
    /\ UNCHANGED <<documentsCache, displayedMachine, openDocuments, asyncVars, editorText, clientVars>>

TypegenTexts == {t \in EditTexts : Len(t.machines) <= 1}

TypegenNext ==
    \/ \E uri \in TypegenDocuments, text \in TypegenTexts :
           HandleDocumentChange(uri, text)
    \/ \E uri \in TypegenDocuments : DidClose(uri)
    \/ \E uri \in TypegenDocuments : WillSaveTextDocument(uri)
    \/ OnTypesUpdated

TypegenSpec == Init /\ [][TypegenNext]_vars

(***************************************************************************)
(* The code action that adds a missing implementation name to the options  *)
(* of a machine (lines 437-580).  Here a text is a sequence of tokens, one *)
(* machine call per text, and an offset counts tokens: a node at           *)
(* [start, end) covers the tokens start .. end-1.  A name is a sequence of *)
(* characters, each a token of its own between the quotes of its key.      *)
(***************************************************************************)
\* tokens of the longest text the editor holds
MaxTextLen == 40

\* the second argument of getTextEditsForImplementation
ImplementationTypes == {"actions", "services", "guards"}

\* `'${name}': () => {}`
PropertyText(name) == <<"'">> \o name \o <<"'", ":", "fn">>

\* `${type}: { '${name}': () => {} }`
CategoryText(type, name) ==
    <<type, ":", "{">> \o PropertyText(name) \o <<"}">>

ImplTexts ==
    LET
        \* the texts a document starts with: a call without arguments, a call with a
        \* definition only, and calls whose options object holds at most one category
        \* of at most one name
        ImplStartCategories ==
            {<<>>} \cup
            {<<type, ":", "{", "}">> : type \in ImplementationTypes} \cup
            {CategoryText(type, name) :
                type \in ImplementationTypes, name \in {<<"a">>, <<"b">>}}
    IN
    {<<"createMachine(", ")">>, <<"createMachine(", "cfg", ")">>} \cup
    {<<"createMachine(", "cfg", ",", "{">> \o cats \o <<"}", ")">> :
        cats \in ImplStartCategories}

\* the parser rejects the text
SyntaxError == [ok |-> FALSE]

\* text.indexOf(tok, i): 0 when there is none
RECURSIVE IndexOfFrom(_, _, _)
IndexOfFrom(text, tok, i) ==
    IF i > Len(text) THEN 0
    ELSE IF text[i] = tok THEN i
    ELSE IndexOfFrom(text, tok, i + 1)

\* The properties of an object of implementations, read from offset i (the
\* token after its opening brace) to its closing brace at offset `end`.  A key
\* is a string literal: it ends at the next quote.
RECURSIVE ParseProperties(_, _)
ParseProperties(text, i) ==
    IF i > Len(text) THEN SyntaxError
    ELSE IF text[i] = "}" THEN [ok |-> TRUE, properties |-> <<>>, end |-> i]
    ELSE IF text[i] # "'" THEN SyntaxError
    ELSE
    LET j == IndexOfFrom(text, "'", i + 1) IN
    IF j = 0 \/ j + 3 > Len(text) THEN SyntaxError
    ELSE IF text[j + 1] # ":" \/ text[j + 2] # "fn" THEN SyntaxError
    ELSE
    LET key == SubSeq(text, i + 1, j - 1)
        k == j + 3
        rest == IF text[k] = "," THEN ParseProperties(text, k + 1)
                ELSE IF text[k] = "}"
                     THEN [ok |-> TRUE, properties |-> <<>>, end |-> k]
                ELSE SyntaxError
    IN  IF rest.ok
        THEN [ok |-> TRUE,
              properties |-> <<[key |-> key]>> \o rest.properties,
              end |-> rest.end]
        ELSE SyntaxError

\* The categories of an options object, read from offset i (the token after
\* its opening brace) to its closing brace at offset `end`.
RECURSIVE ParseCategories(_, _)
ParseCategories(text, i) ==
    IF i > Len(text) THEN SyntaxError
    ELSE IF text[i] = "}" THEN [ok |-> TRUE, categories |-> <<>>, end |-> i]
    ELSE IF text[i] \notin ImplementationTypes \/ i + 3 > Len(text)
    THEN SyntaxError
    ELSE IF text[i + 1] # ":" \/ text[i + 2] # "{" THEN SyntaxError
    ELSE
    LET props == ParseProperties(text, i + 3) IN
    IF ~props.ok \/ props.end + 1 > Len(text) THEN SyntaxError
    ELSE
    LET k == props.end + 1
        rest == IF text[k] = "," THEN ParseCategories(text, k + 1)
                ELSE IF text[k] = "}"
                     THEN [ok |-> TRUE, categories |-> <<>>, end |-> k]
                ELSE SyntaxError
    IN  IF rest.ok
        THEN [ok |-> TRUE,
              categories |->
                  <<[type |-> text[i],
                     loc |-> [start |-> i + 2, end |-> props.end + 1],
                     properties |-> props.properties]>> \o rest.categories,
              end |-> rest.end]
        ELSE SyntaxError

\* extractMachinesFromFile(text) on a text of one call: the machineCallResult
\* with the locations of its definition, its options object and the
\* categories of the options; SyntaxError when the parser throws
ParseMachine(text) ==
    IF Len(text) < 2 THEN SyntaxError
    ELSE IF text[1] # "createMachine(" \/ text[Len(text)] # ")" THEN SyntaxError
    ELSE IF Len(text) = 2
    THEN [ok |-> TRUE, definition |-> <<>>, options |-> <<>>]
    ELSE IF text[2] # "cfg" THEN SyntaxError
    ELSE IF Len(text) = 3
    THEN [ok |-> TRUE,
          definition |-> <<[loc |-> [start |-> 2, end |-> 3]]>>,
          options |-> <<>>]
    ELSE IF Len(text) < 6 THEN SyntaxError
    ELSE IF text[3] # "," \/ text[4] # "{" THEN SyntaxError
    ELSE
    LET cats == ParseCategories(text, 5) IN
    IF ~cats.ok THEN SyntaxError
    ELSE IF cats.end + 1 # Len(text) THEN SyntaxError
    ELSE [ok |-> TRUE,
          definition |-> <<[loc |-> [start |-> 2, end |-> 3]]>>,
          options |-> <<[loc |-> [start |-> 4, end |-> cats.end + 1],
                         categories |-> cats.categories]>>]

\* machine.machineCallResult.options?.[type]: <<>> when undefined
OptionsCategory(machine, type) ==
    IF machine.options = <<>> THEN <<>>
    ELSE SelectSeq(machine.options[1].categories, LAMBDA c : c.type = type)

\* getRawTextFromNode(text, node)
getRawTextFromNode(text, loc) == SubSeq(text, loc.start, loc.end - 1)

\* rawText.slice(1)
Slice1(rawText) == SubSeq(rawText, 2, Len(rawText))

\* the category adds the name as the only one, dropping what it held
getTextEditsForImplementation_Overwrites(machine, type, name, text) ==
    IF machine.definition = <<>> THEN <<>>
    ELSE IF machine.options = <<>>
    THEN <<[range |-> [start |-> machine.definition[1].loc.end,
                       end |-> machine.definition[1].loc.end],
            newText |-> <<",", "{">> \o CategoryText(type, name) \o <<"}">>]>>
    ELSE IF OptionsCategory(machine, type) = <<>>
    THEN LET rawText == getRawTextFromNode(text, machine.options[1].loc) IN
         <<[range |-> machine.options[1].loc,
            newText |-> SubSeq(rawText, 1, 1) \o CategoryText(type, name)
                           \o <<",">> \o Slice1(rawText)]>>
    ELSE
    LET category == OptionsCategory(machine, type)[1] IN
    IF \E p \in 1..Len(category.properties) : category.properties[p].key = name
    THEN <<>>
    ELSE LET rawText == getRawTextFromNode(text, category.loc) IN
         <<[range |-> category.loc,
            newText |-> SubSeq(rawText, 1, 1) \o PropertyText(name)
                           \o <<"}">>]>>

\* lines 502-580
getTextEditsForImplementation(machine, type, name, text) ==
    \* line 510
    IF machine.definition = <<>> THEN <<>>
    \* lines 515-527: no options object, insert one after the definition
    ELSE IF machine.options = <<>>
    THEN <<[range |-> [start |-> machine.definition[1].loc.end,
                       end |-> machine.definition[1].loc.end],
            newText |-> <<",", "{">> \o CategoryText(type, name) \o <<"}">>]>>
    \* lines 530-548: the options object has no such category
    ELSE IF OptionsCategory(machine, type) = <<>>
    THEN LET rawText == getRawTextFromNode(text, machine.options[1].loc) IN
         <<[range |-> machine.options[1].loc,
            newText |-> SubSeq(rawText, 1, 1) \o CategoryText(type, name)
                           \o <<",">> \o Slice1(rawText)]>>
    ELSE
    LET category == OptionsCategory(machine, type)[1] IN
    \* lines 550-557: the implementation exists
    IF \E p \in 1..Len(category.properties) : category.properties[p].key = name
    THEN <<>>
    \* lines 560-577: the category does not hold the name
    ELSE LET rawText == getRawTextFromNode(text, category.loc) IN
         <<[range |-> category.loc,
            newText |-> SubSeq(rawText, 1, 1) \o PropertyText(name)
                           \o <<",">> \o Slice1(rawText)]>>

\* getCursorHoverType(extractionResults, position): nothing, or the name of
\* an action, service or guard in the definition of a machine
HoverResults ==
    LET
        \* names a machine definition refers to: `a`, `b` and `a'`
        ImplementationNames == {<<"a">>, <<"b">>, <<"a", "'">>}
    IN
    {<<>>} \cup
    {<<[type |-> type, name |-> name]>> :
        type \in ImplementationTypes, name \in ImplementationNames}

\* lines 437-500: the code actions offered at the cursor
CodeActionReply(uri, hover) ==
    LET cachedDocument == CacheGet(uri) IN
    IF cachedDocument = <<>> \/ hover = <<>>
    THEN [kind |-> "codeActions", actions |-> <<>>]
    ELSE [kind |-> "codeActions",
          actions |->
              <<[title |-> <<"Add", hover[1].name, "to options">>,
                 edits |-> getTextEditsForImplementation(
                               cachedDocument[1].extractionResults[1].machineResult,
                               hover[1].type, hover[1].name,
                               cachedDocument[1].documentText)]>>]

CodeAction(uri, hover) ==
    /\ out' = [Out("codeAction", uri, <<>>, "", CodeActionReply(uri, hover))
                  EXCEPT !.arg = hover]
    /\ UNCHANGED <<documentsCache, displayedMachine, openDocuments, asyncVars,
                   editorText, clientVars>>

\* the client applies one text edit to a text
ApplyTextEdit(text, edit) ==
    SubSeq(text, 1, edit.range.start - 1) \o edit.newText
        \o SubSeq(text, edit.range.end, Len(text))

\* lines 192-318 on a text of one untyped machine that is not displayed: the
\* cache entry is replaced when the text parses (lines 234-237) and kept when
\* the parser throws (lines 310-317)
ImplReconcile(uri, text) ==
    LET machine == ParseMachine(text) IN
    IF machine.ok
    THEN [cache |->
              CacheSet(uri, [documentText |-> text,
                             extractionResults |->
                                 <<[machineResult |-> machine]>>]),
          sent |-> <<Diagnostics(uri, TRUE)>>, path |-> "completed"]
    ELSE [cache |-> documentsCache,
          sent |-> CatchPart(uri, displayedMachine, "SyntaxError"),
          path |-> "caught"]

\* The user picks the code action of the last reply: the client applies its
\* edits to the text of the editor and the content change that follows is
\* reconciled.
ApplyCodeAction(uri) ==
    /\ out.op = "codeAction" /\ out.uri = uri
    /\ out.reply.actions # <<>>
    /\ out.reply.actions[1].edits # <<>>
    /\ uri \in DOMAIN editorText
    /\ LET text == ApplyTextEdit(editorText[uri], out.reply.actions[1].edits[1])
           done == ImplReconcile(uri, text)
       IN  /\ Len(text) <= MaxTextLen
           /\ UNCHANGED clientVars
           /\ editorText' = [editorText EXCEPT ![uri] = text]
           /\ documentsCache' = done.cache
           /\ out' = [Out("applyCodeAction", uri, done.sent, done.path, NoReply)
                         EXCEPT !.arg = out.arg]
    /\ UNCHANGED <<displayedMachine, openDocuments, asyncVars>>

\* a document that was opened and reconciled
ImplInit ==
    \E uri \in Documents, text \in ImplTexts :
        /\ documentsCache =
               (uri :> [documentText |-> text,
                        extractionResults |->
                            <<[machineResult |-> ParseMachine(text)]>>])
        /\ displayedMachine = <<>>
        /\ out = Out("init", "", <<>>, "", NoReply)
        /\ openDocuments = {uri}
        /\ documentSettings = <<>>
        /\ promises = <<>>
        /\ inFlight = <<>>
        /\ editorText = (uri :> text)
        /\ typegenService = [value |-> "idle", context |-> [eventMap |-> <<>>],
                         delayed |-> <<>>]
        /\ executing = <<>>
        /\ fileSystem = <<>>
        /\ received = <<>>
        /\ clock = Delay
        /\ typegenCalls = <<>>

ImplNext ==
    \/ \E uri \in Documents, hover \in HoverResults : CodeAction(uri, hover)
    \/ \E uri \in Documents : ApplyCodeAction(uri)

ImplSpec == ImplInit /\ [][ImplNext]_vars

(***************************************************************************)
(* Reconciliations that throw: two documents, and texts the parser rejects.*)
(***************************************************************************)
\* lines 192-196, 310-317: a content change whose text the parser rejects.
\* extractMachinesFromFile throws at line 196, before anything was written.
HandleUnparsableChange(uri) ==
    /\ out' = Out("handleDocumentChange", uri,
                  CatchPart(uri, displayedMachine, "SyntaxError"), "caught",
                  NoReply)
    /\ openDocuments' = openDocuments \cup {uri}
    /\ UNCHANGED <<documentsCache, displayedMachine, asyncVars, editorText, clientVars>>

CatchNext ==
    \/ \E uri \in Uris, text \in TypegenTexts : HandleDocumentChange(uri, text)
    \/ \E uri \in Uris : HandleUnparsableChange(uri)
    \/ \E uri \in Uris, i \in AsyncIndexes : SetDisplayedMachine(uri, i)
    \/ ClearDisplayedMachine

CatchSpec == Init /\ [][CatchNext]_vars

(***************************************************************************)
(* Configuration changes (lines 324-334) of a server with the capability.  *)
(***************************************************************************)
\* connection.documents.all(): the open documents, in some order
RECURSIVE AllDocuments(_)
AllDocuments(uris) ==
    IF uris = {} THEN <<>>
    ELSE LET uri == CHOOSE u \in uris : TRUE
         IN  <<uri>> \o AllDocuments(uris \ {uri})

\* line 333: handleDocumentChange of each document in turn, up to its await.
\* st holds documentSettings, promises and inFlight as the calls leave them;
\* the settings were cleared, so each lookup makes a new configuration
\* request (lines 121-126).
RECURSIVE RestartAll(_, _)
RestartAll(uris, st) ==
    IF uris = <<>> THEN st
    ELSE
    LET uri == Head(uris)
        text == editorText[uri]
        p == Len(st.promises) + 1
    IN  IF extractMachinesFromFile(text) = <<>>
        THEN RestartAll(Tail(uris), st)
        ELSE RestartAll(
                 Tail(uris),
                 [documentSettings |->
                      [u \in DOMAIN st.documentSettings \cup {uri} |->
                          IF u = uri THEN p ELSE st.documentSettings[u]],
                  promises |-> Append(st.promises, FALSE),
                  inFlight |->
                      Append(st.inFlight,
                             [uri |-> uri, text |-> text,
                              previouslyCachedDocument |-> CacheGet(uri),
                              promise |-> p])])

\* lines 324-334: documentSettings.clear(), then every open document is
\* reconciled again
DidChangeConfiguration ==
    LET st == RestartAll(AllDocuments(openDocuments),
                         [documentSettings |-> <<>>, promises |-> promises,
                          inFlight |-> inFlight])
    IN  /\ Len(st.inFlight) <= MaxInFlight
        /\ Len(st.promises) <= MaxPromises
        /\ documentSettings' = st.documentSettings
        /\ promises' = st.promises
        /\ inFlight' = st.inFlight
        /\ out' = Out("didChangeConfiguration", "", <<>>, "", NoReply)
        /\ UNCHANGED <<documentsCache, displayedMachine, openDocuments,
                       editorText, clientVars>>

ConfigNext ==
    \/ Resume
    \/ \E p \in 1..MaxPromises : Runnable = {} /\ ConfigurationArrives(p)
    \/ \E uri \in Documents, text \in AsyncTexts :
           Runnable = {} /\ DidChangeContent(uri, text)
    \/ \E uri \in Documents : Runnable = {} /\ DidClose(uri)
    \/ Runnable = {} /\ DidChangeConfiguration

ConfigSpec == Init /\ [][ConfigNext]_vars

(***************************************************************************)
(* The generated type file of the client (client/src/extension.ts).        *)
(* An event name is a sequence of tokens, so that a prefix of a name and   *)
(* the pattern of an inline invocation are read off the name; the empty    *)
(* name is <<>>.  A rendered piece of text is a record: a quoted name or a *)
(* bare word.                                                              *)
(***************************************************************************)
\* events of one line
MaxEvents == 3

\* `'${text}'`
Quoted(text) == [kind |-> "quoted", text |-> text]

\* a word written without quotes: string, never
Bare(word) == [kind |-> "bare", text |-> <<word>>]

\* event.startsWith(prefix)
StartsWith(event, prefix) == event # <<>> /\ event[1] = prefix

\* line 500: /done\.invoke\..{0,}:invocation\[.{0,}\]/.test(event)
inlineInvocationName(event) ==
    \E i, j, k \in 1..Len(event) :
        /\ i + 1 < j /\ j < k
        /\ event[i] = "done.invoke" /\ event[i + 1] = "."
        /\ event[j] = ":invocation[" /\ event[k] = "]"

\* Set.prototype.add: the elements stay in the order of their first insertion
SetAdd(seq, x) ==
    IF \E i \in 1..Len(seq) : seq[i] = x THEN seq ELSE Append(seq, x)

\* lines 575-577: Array.from(new Set(array))
RECURSIVE unique(_)
unique(array) ==
    IF array = <<>> THEN <<>>
    ELSE SetAdd(unique(SubSeq(array, 1, Len(array) - 1)), array[Len(array)])

\* lines 556-558: `.join(" | ") || "string"`; the joined text is empty only
\* when there is nothing to join
JoinedOr(items, word) == IF items = <<>> THEN <<Bare(word)>> ELSE items

\* a union that lists an event as often as the line does
displayEventsCausing_KeepsDuplicates(lines) ==
    [l \in 1..Len(lines) |->
        [name |-> lines[l].name,
         union |->
             JoinedOr([e \in 1..Len(lines[l].events) |->
                          Quoted(lines[l].events[e])],
                      "string")]]

\* lines 541-561
displayEventsCausing(lines) ==
    [l \in 1..Len(lines) |->
        [name |-> lines[l].name,
         union |->
             JoinedOr([e \in 1..Len(unique(lines[l].events)) |->
                          Quoted(unique(lines[l].events)[e])],
                      "string")]]

\* an entry without payload for the events of the user as well
InternalEventEntry_NamesEveryEvent(event) ==
    IF inlineInvocationName(event)
    THEN <<[name |-> event, data |-> "unknown", tip |-> "Give this service a name"]>>
    ELSE IF StartsWith(event, "done.invoke")
    THEN <<[name |-> event, data |-> "unknown", tip |-> "Provide an event of type"]>>
    ELSE IF StartsWith(event, "error.platform")
    THEN <<[name |-> event, data |-> "unknown", tip |-> "none"]>>
    ELSE <<[name |-> event, data |-> "none", tip |-> "none"]>>

\* lines 509-527: the entry added for one event, <<>> when none is
InternalEventEntry(event) ==
    IF inlineInvocationName(event)
    THEN <<[name |-> event, data |-> "unknown", tip |-> "Give this service a name"]>>
    ELSE IF StartsWith(event, "done.invoke")
    THEN <<[name |-> event, data |-> "unknown", tip |-> "Provide an event of type"]>>
    ELSE IF StartsWith(event, "xstate.") \/ event = <<>>
    THEN <<[name |-> event, data |-> "none", tip |-> "none"]>>
    ELSE IF StartsWith(event, "error.platform")
    THEN <<[name |-> event, data |-> "unknown", tip |-> "none"]>>
    ELSE <<>>

\* every event of every line of every array, in order
RECURSIVE EventsOfLines(_)
EventsOfLines(lines) ==
    IF lines = <<>> THEN <<>>
    ELSE Head(lines).events \o EventsOfLines(Tail(lines))

RECURSIVE EventsOfLineArrays(_)
EventsOfLineArrays(lineArrays) ==
    IF lineArrays = <<>> THEN <<>>
    ELSE EventsOfLines(Head(lineArrays)) \o EventsOfLineArrays(Tail(lineArrays))

RECURSIVE AddInternalEvents(_, _)
AddInternalEvents(internalEvents, events) ==
    IF events = <<>> THEN internalEvents
    ELSE AddInternalEvents(
             IF InternalEventEntry(Head(events)) = <<>> THEN internalEvents
             ELSE SetAdd(internalEvents, InternalEventEntry(Head(events))[1]),
             Tail(events))

\* lines 502-532
collectInternalEvents(lineArrays) ==
    [internalEvents |-> AddInternalEvents(<<>>, EventsOfLineArrays(lineArrays))]

\* lines 374-460: the entry of one machine; createMachine or
\* introspectMachine throwing is caught (lines 453-455)
TypegenEntry_NeverMissing(machine) ==
    IF machine.throws THEN [typegen |-> FALSE]
    ELSE
    LET introspectResult == machine.introspectResult IN
    [typegen |-> TRUE,
     eventsCausingActions |-> displayEventsCausing(introspectResult.actions),
     internalEvents |->
         collectInternalEvents(<<introspectResult.actions,
                                 introspectResult.services,
                                 introspectResult.guards,
                                 introspectResult.delays>>).internalEvents,
     invokeSrcNameMap |->
         [l \in 1..Len(introspectResult.services) |->
             [key |-> introspectResult.services[l].name,
              value |-> <<"done.invoke", ".",
                          introspectResult.services[l].name>>]],
     missingImplementations |->
         [actions |-> <<Bare("never")>>, services |-> <<Bare("never")>>,
          guards |-> <<Bare("never")>>, delays |-> <<Bare("never")>>],
     eventsCausingServices |-> displayEventsCausing(introspectResult.services),
     eventsCausingGuards |-> displayEventsCausing(introspectResult.guards),
     eventsCausingDelays |-> displayEventsCausing(introspectResult.delays)]

TypegenEntry(machine) ==
    LET
        \* lines 393-411: the names of the lines that the options do not implement,
        \* quoted
        Required(lines, inOptions) ==
            LET missing == SelectSeq(lines, LAMBDA line : line.name \notin inOptions)
            IN  [i \in 1..Len(missing) |-> Quoted(<<missing[i].name>>)]
    IN
    IF machine.throws THEN [typegen |-> FALSE]
    ELSE
    LET introspectResult == machine.introspectResult IN
    [typegen |-> TRUE,
     eventsCausingActions |-> displayEventsCausing(introspectResult.actions),
     internalEvents |->
         collectInternalEvents(<<introspectResult.actions,
                                 introspectResult.services,
                                 introspectResult.guards,
                                 introspectResult.delays>>).internalEvents,
     invokeSrcNameMap |->
         [l \in 1..Len(introspectResult.services) |->
             [key |-> introspectResult.services[l].name,
              value |-> <<"done.invoke", ".",
                          introspectResult.services[l].name>>]],
     missingImplementations |->
         [actions |->
              JoinedOr(Required(introspectResult.actions,
                                machine.actionsInOptions), "never"),
          services |->
              JoinedOr(Required(introspectResult.services,
                                machine.servicesInOptions), "never"),
          guards |->
              JoinedOr(Required(introspectResult.guards,
                                machine.guardsInOptions), "never"),
          delays |->
              JoinedOr(Required(introspectResult.delays,
                                machine.delaysInOptions), "never")],
     eventsCausingServices |-> displayEventsCausing(introspectResult.services),
     eventsCausingGuards |-> displayEventsCausing(introspectResult.guards),
     eventsCausingDelays |-> displayEventsCausing(introspectResult.delays)]

\* lines 367-472: the entries of `export type Typegen = [...]`
getTypegenOutput(event) ==
    LET typed == SelectSeq(event.machines,
                           LAMBDA machine : machine.hasTypesNode)
    IN  [i \in 1..Len(typed) |-> TypegenEntry(typed[i])]

CausingLines ==
    LET
        \* the lines displayEventsCausing is applied to: none, one line, or two
        \* lines of which the second lists at most one event
        CausingEvents == {<<"EV">>, <<"xstate.", "init">>}
    IN
    {<<>>}
    \cup {<<[name |-> "n1", events |-> e1]>> :
             e1 \in SeqsUpTo(CausingEvents, MaxEvents)}
    \cup {<<[name |-> "n1", events |-> e1], [name |-> "n2", events |-> e2]>> :
             e1 \in SeqsUpTo(CausingEvents, MaxEvents),
             e2 \in SeqsUpTo(CausingEvents, 1)}

\* the line arrays collectInternalEvents is applied to: two arrays of one
\* line, of at most two events and of at most one
InternalLineArrays ==
    LET
        \* event names a line may list: a plain event, the empty name, an internal
        \* event, the completion of a named service, the completion of an inline
        \* invocation, and the error of a service
        EventNames ==
            {<<"EV">>, <<>>, <<"xstate.", "init">>,
             <<"done.invoke", ".", "doThing">>,
             <<"done.invoke", ".", "m", ":invocation[", "0", "]">>,
             <<"error.platform", ".", "doThing">>}
    IN
    {<<<<[name |-> "n1", events |-> e1]>>, <<[name |-> "n2", events |-> e2]>>>> :
        e1 \in SeqsUpTo(EventNames, 2), e2 \in SeqsUpTo(EventNames, 1)}

\* a line of an introspection result
LineOfName(name) == [name |-> name, events |-> <<<<"EV">>>>]

\* machines of one document or one update event
MaxTypegenMachines == 3

\* a machine of an update event of which only the types node and the
\* outcome of createMachine matter
PlainEventMachine(hasTypesNode, throws) ==
    [hasTypesNode |-> hasTypesNode, throws |-> throws,
     introspectResult |->
         [actions |-> <<LineOfName("a1")>>, services |-> <<>>,
          guards |-> <<>>, delays |-> <<>>],
     actionsInOptions |-> {}, servicesInOptions |-> {},
     guardsInOptions |-> {}, delaysInOptions |-> {}]

\* the update events getTypegenOutput is applied to
UpdateEvents ==
    LET
        \* one machine of an update event, with the lines of introspectMachine and
        \* the names its options implement
        IntrospectedMachines ==
            {[hasTypesNode |-> TRUE, throws |-> FALSE,
              introspectResult |->
                  [actions |-> [i \in 1..Len(a) |-> LineOfName(a[i])],
                   services |-> [i \in 1..Len(s) |-> LineOfName(s[i])],
                   guards |-> [i \in 1..Len(g) |-> LineOfName(g[i])],
                   delays |-> [i \in 1..Len(d) |-> LineOfName(d[i])]],
              actionsInOptions |-> ao, servicesInOptions |-> so,
              guardsInOptions |-> go, delaysInOptions |-> do] :
                a \in {<<>>, <<"a1">>, <<"a1", "a2">>}, ao \in SUBSET {"a1", "a2"},
                s \in {<<>>, <<"doThing">>}, so \in SUBSET {"doThing"},
                g \in {<<>>, <<"g1">>}, go \in SUBSET {"g1"},
                d \in {<<"d1">>}, do \in SUBSET {"d1"}}
    IN
    {[uri |-> "file:///a.ts", machines |-> <<machine>>] :
        machine \in IntrospectedMachines}
    \cup
    {[uri |-> "file:///a.ts",
      machines |-> [i \in 1..Len(ms) |->
                       PlainEventMachine(ms[i].hasTypesNode, ms[i].throws)]] :
        ms \in SeqsUpTo([hasTypesNode : BOOLEAN, throws : BOOLEAN],
                        MaxTypegenMachines)}

\* parseMachinesFromFile(text).machines of a saved document: whether a call
\* carries the ignore marker and whether its definition has a types node
SavedDocuments ==
    SeqsUpTo([ignored : BOOLEAN, typesNode : BOOLEAN], MaxTypegenMachines)

OnWillSaveTextDocument(machines) ==
    LET
        \* lines 282-321: the edits of a save; each machine with a types node gets
        \* `Typegen[${index}]` written at its types node
        WillSaveEdits(saved) ==
            LET
                \* the positions in the document of the machines with a types node
                TypedPositions(calls) ==
                    SelectSeq([i \in 1..Len(calls) |-> i],
                              LAMBDA i : calls[i].typesNode)
            IN
            IF Len(saved) > 0
            THEN [kind |-> "edits",
                  fileEdits |->
                      [index \in 1..Len(TypedPositions(saved)) |->
                          [machine |-> TypedPositions(saved)[index],
                           index |-> index - 1]]]
            ELSE [kind |-> "edits", fileEdits |-> <<>>]
    IN
    /\ out' = [Out("onWillSaveTextDocument", "file:///a.ts", <<>>, "",
                   WillSaveEdits(machines))
                  EXCEPT !.arg = machines]
    /\ UNCHANGED <<documentsCache, displayedMachine, openDocuments, asyncVars,
                   editorText, clientVars>>

GetTypegenOutput(event) ==
    /\ out' = [Out("getTypegenOutput", event.uri, <<>>, "",
                   [kind |-> "typegen", Typegen |-> getTypegenOutput(event)])
                  EXCEPT !.arg = event]
    /\ UNCHANGED <<documentsCache, displayedMachine, openDocuments, asyncVars,
                   editorText, clientVars>>

DisplayEventsCausing(lines) ==
    /\ out' = [Out("displayEventsCausing", "", <<>>, "",
                   [kind |-> "lines", lines |-> displayEventsCausing(lines)])
                  EXCEPT !.arg = lines]
    /\ UNCHANGED <<documentsCache, displayedMachine, openDocuments, asyncVars,
                   editorText, clientVars>>

CollectInternalEvents(lineArrays) ==
    /\ out' = [Out("collectInternalEvents", "", <<>>, "",
                   [kind |-> "internalEvents",
                    internalEvents |->
                        collectInternalEvents(lineArrays).internalEvents])
                  EXCEPT !.arg = lineArrays]
    /\ UNCHANGED <<documentsCache, displayedMachine, openDocuments, asyncVars,
                   editorText, clientVars>>

OutputNext ==
    \/ \E event \in UpdateEvents : GetTypegenOutput(event)
    \/ \E lines \in CausingLines : DisplayEventsCausing(lines)
    \/ \E lineArrays \in InternalLineArrays : CollectInternalEvents(lineArrays)
    \/ \E machines \in SavedDocuments : OnWillSaveTextDocument(machines)

OutputSpec == Init /\ [][OutputNext]_vars

(***************************************************************************)
(* The visual editor's edits applied by the client.                        *)
(***************************************************************************)
\* The client applies the replacement that the last applyMachineEdits
\* returned, and the content change that follows is reconciled (lines
\* 320-322, 192-318).
ApplyTextEdits ==
    /\ out.op = "applyMachineEdits" /\ out.reply.kind = "ok"
    /\ HandleDocumentChange(
           out.reply.textEdits[1].uri,
           SpliceText(documentsCache[out.reply.textEdits[1].uri].documentText,
                      out.reply.textEdits[1].range,
                      out.reply.textEdits[1].newText))

EchoNext ==
    \/ EditNext
    \/ ApplyTextEdits

EchoSpec == Init /\ [][EchoNext]_vars

(***************************************************************************)
(* ThrottleSpec: the client of src/client/src/extension.ts receives the    *)
(* server's xstate/update notifications and hands them to the interpreter  *)
(* of throttledTypegenCreationMachine, which writes or deletes the typegen *)
(* files 500 ms after the last one.  executeAction is an async function    *)
(* nobody awaits: each of its callbacks is suspended at the await of       *)
(* line 90 and touches the file system when it is resumed.                 *)
(***************************************************************************)
\* update events received between two entries to idle
MaxReceived == 2

\* callbacks of executeAction suspended at once
MaxExecuting == 2

\* the milliseconds that pass in one step of the clock
TickMs == 250

ThrottleEvents ==
    LET
        \* the machines of the update events of a document: none, one without a
        \* types node, one with a types node
        ThrottleMachines ==
            {<<>>,
             <<PlainEventMachine(FALSE, FALSE)>>,
             <<PlainEventMachine(TRUE, FALSE)>>}
    IN
                  [uri : Uris, machines : ThrottleMachines]

\* lines 55-68: RECEIVE_NEW_EVENT in any state is an external transition to
\* throttling whose action is the assignment; throttling is left, which
\* cancels the delayed transition of line 75, and entered, which schedules it
ReceiveNewEvent_Internal(service, event) ==
    LET
        AssignEvent(eventMap, newEvent) ==
            IF \E i \in 1..Len(eventMap) : eventMap[i].uri = newEvent.uri
            THEN [i \in 1..Len(eventMap) |->
                     IF eventMap[i].uri = newEvent.uri THEN newEvent ELSE eventMap[i]]
            ELSE Append(eventMap, newEvent)
    IN
    [value |-> "throttling",
     context |-> [eventMap |-> AssignEvent(service.context.eventMap, event)],
     delayed |-> IF service.value = "throttling" THEN service.delayed
                 ELSE <<Delay>>]

ReceiveNewEvent(service, event) ==
    LET
        \* lines 59-66: {...context.eventMap, [event.event.uri]: event.event}; the
        \* map is the sequence of its values in the order of Object.entries, a key
        \* that is assigned again keeps its place
        AssignEvent(eventMap, newEvent) ==
            IF \E i \in 1..Len(eventMap) : eventMap[i].uri = newEvent.uri
            THEN [i \in 1..Len(eventMap) |->
                     IF eventMap[i].uri = newEvent.uri THEN newEvent ELSE eventMap[i]]
            ELSE Append(eventMap, newEvent)
    IN
    [value |-> "throttling",
     context |-> [eventMap |-> AssignEvent(service.context.eventMap, event)],
     delayed |-> <<Delay>>]

\* lines 92-95: event.machines.filter(machine => machine.hasTypesNode).length > 0
HasTypedMachine(event) ==
    \E i \in 1..Len(event.machines) : event.machines[i].hasTypesNode

\* lines 92-105: what a resumed callback does to the file system; unlink of
\* a file that is not there rejects and changes nothing
ExecuteCallback(files, event) ==
    LET
        \* lines 84-88: uri.replace(/\.([j,t])sx?$/, ".typegen.ts") as a path
        PathToSave(uri) ==
            CASE uri = "file:///a.ts" -> "/a.typegen.ts"
              [] uri = "file:///a.typegen.ts" -> "/a.typegen.typegen.ts"
              [] OTHER -> "/b.typegen.ts"
    IN
    LET
        \* prettier.format(text, {...prettierConfig, parser: "typescript"})
        prettierFormat(text) == [parser |-> "typescript", source |-> text]
    IN
    IF HasTypedMachine(event)
    THEN [p \in DOMAIN files \cup {PathToSave(event.uri)} |->
             IF p = PathToSave(event.uri)
             THEN prettierFormat(getTypegenOutput(event))
             ELSE files[p]]
    ELSE [p \in DOMAIN files \ {PathToSave(event.uri)} |-> files[p]]

\* lines 322-342: the client receives xstate/update; an event without
\* machines is ignored, any other is shown and sent to the machine
OnUpdateNotification(event) ==
    LET
        \* lines 326-334: one UPDATE message for each machine of the event
        UpdateMessages ==
            [i \in 1..Len(event.machines) |->
                [type |-> "UPDATE", uri |-> event.uri, machine |-> event.machines[i]]]
    IN
    /\ IF Len(event.machines) = 0
       THEN /\ out' = [Out("xstate/update", event.uri, <<>>, "ignored", NoReply)
                          EXCEPT !.arg = event]
            /\ UNCHANGED clientVars
       ELSE /\ Len(received) < MaxReceived
            /\ out' = [Out("xstate/update", event.uri, UpdateMessages,
                           "sent", NoReply)
                          EXCEPT !.arg = event]
            /\ typegenService' = ReceiveNewEvent(typegenService, event)
            /\ received' = Append(received, event)
            /\ clock' = 0
            /\ UNCHANGED <<executing, fileSystem, typegenCalls>>
    /\ UNCHANGED <<documentsCache, displayedMachine, openDocuments, asyncVars,
                   editorText>>

\* lines 74-77, 70-72, 81-83: 500 ms passed in throttling; the machine enters
\* idle, executeAction starts one callback for each entry of the map, each
\* of which is suspended at line 90, and clearActions empties the map
After500 ==
    LET
        \* lines 74-77 and 70-72: the delayed transition to idle, whose entry runs
        \* executeAction with the context it finds and then clearActions
        \* (preserveActionOrder, lines 108-112)
        EnterIdle(service) ==
            [value |-> "idle", context |-> [eventMap |-> <<>>],
             delayed |-> <<>>]
    IN
    /\ typegenService.value = "throttling"
    /\ typegenService.delayed = <<0>>
    /\ Len(executing) + Len(typegenService.context.eventMap) <= MaxExecuting
    /\ out' = Out("after", "", <<>>, "idle",
                  [kind |-> "flush",
                   events |-> typegenService.context.eventMap])
    /\ executing' = executing \o typegenService.context.eventMap
    /\ typegenService' = EnterIdle(typegenService)
    /\ received' = <<>>
    /\ UNCHANGED <<documentsCache, displayedMachine, openDocuments, asyncVars,
                   editorText, fileSystem, clock, typegenCalls>>

\* lines 90-105: a suspended callback is resumed and writes or deletes the
\* typegen file of its event
ExecuteActionResumes(i) ==
    /\ i \in 1..Len(executing)
    /\ out' = [Out("executeAction", executing[i].uri, <<>>,
                   IF HasTypedMachine(executing[i]) THEN "writeFile"
                   ELSE "unlink",
                   NoReply)
                  EXCEPT !.arg = executing[i]]
    /\ fileSystem' = ExecuteCallback(fileSystem, executing[i])
    /\ executing' = RemoveAt(executing, i)
    /\ UNCHANGED <<documentsCache, displayedMachine, openDocuments, asyncVars,
                   editorText, typegenService, received, clock, typegenCalls>>

\* TickMs milliseconds pass: the delayed transition of line 75 comes nearer;
\* one that is due is taken before more time passes
Tick ==
    /\ typegenService.delayed # <<0>>
    /\ typegenService.delayed # <<>> \/ clock < Delay
    /\ typegenService' =
           [typegenService EXCEPT
               !.delayed = IF typegenService.delayed = <<>> THEN <<>>
                           ELSE <<typegenService.delayed[1] - TickMs>>]
    /\ clock' = IF clock + TickMs > Delay THEN Delay ELSE clock + TickMs
    /\ out' = Out("tick", "", <<>>, "", NoReply)
    /\ UNCHANGED <<documentsCache, displayedMachine, openDocuments, asyncVars,
                   editorText, executing, fileSystem, received, typegenCalls>>

ThrottleNext ==
    \/ \E event \in ThrottleEvents : OnUpdateNotification(event)
    \/ After500
    \/ \E i \in 1..MaxExecuting : ExecuteActionResumes(i)
    \/ Tick

ThrottleSpec == Init /\ [][ThrottleNext]_vars

\* time passes, a delayed transition that is due is taken, and a suspended
\* callback is resumed
ThrottleFairSpec ==
    /\ ThrottleSpec
    /\ WF_vars(Tick)
    /\ WF_vars(After500)
    /\ WF_vars(\E i \in 1..MaxExecuting : ExecuteActionResumes(i))

(***************************************************************************)
(* ListenerSpec: createTypegenFile of initiateTypegen.ts registers a       *)
(* listener for opened documents, races a timeout of 3 seconds against the *)
(* open event of the generated file and disposes the listener when the     *)
(* race is settled.  The callback of then() is a microtask: it runs before *)
(* the client handles anything else.                                       *)
(***************************************************************************)
\* calls of createTypegenFile
MaxCalls == 3

\* the documents the editor may open
OpenedUris == {"file:///a.ts", "file:///a.typegen.ts", "file:///b.typegen.ts"}

\* lines 41-43: the listener is registered and the document opened is the
\* generated file
ListenerMatches_AnyDocument(call, textDocumentUri) ==
    call.listener = "registered"

ListenerMatches(call, textDocumentUri) ==
    /\ call.listener = "registered"
    /\ textDocumentUri = call.typegenUri

\* lines 50-56: the race is settled by whichever promise is resolved first
RaceSettled(call) ==
    [call EXCEPT !.race = IF call.race = "pending" THEN "fulfilled"
                          ELSE call.race]

\* lines 50-56: the calls whose race is settled and whose then(dispose) has
\* not run
PendingThen ==
    {i \in 1..Len(typegenCalls) :
        typegenCalls[i].race = "fulfilled" /\ ~typegenCalls[i].thenRan}

\* lines 24-73: createTypegenFile, called for a saved document or for a
\* typesUpdated notification (lines 101, 121); the deferred and the listener
\* are created, the timer and the race are started, the edit that creates
\* the file is applied
CreateTypegenFile(uri) ==
    /\ PendingThen = {}
    /\ Len(typegenCalls) < MaxCalls
    /\ typegenCalls' =
           Append(typegenCalls,
                  [typegenUri |-> createTypegenFile(uri, <<>>).uri,
                   listener |-> "registered",
                   documentOpened |-> "pending",
                   timeout |-> "pending",
                   race |-> "pending",
                   thenRan |-> FALSE])
    /\ out' = Out("createTypegenFile", uri,
                  <<createTypegenFile(uri, <<>>)>>, "", NoReply)
    /\ UNCHANGED <<documentsCache, displayedMachine, openDocuments, asyncVars,
                   editorText, typegenService, executing, fileSystem,
                   received, clock>>

\* lines 41-47: the editor opened a document; every listener still
\* registered is called, and one whose generated file it is resolves its
\* deferred and saves the document
DidOpenTextDocument(uri) ==
    /\ PendingThen = {}
    /\ typegenCalls' =
           [i \in 1..Len(typegenCalls) |->
               IF ListenerMatches(typegenCalls[i], uri)
               THEN RaceSettled([typegenCalls[i] EXCEPT
                                    !.documentOpened = "resolved"])
               ELSE typegenCalls[i]]
    /\ out' = Out("didOpenTextDocument", uri,
                  [k \in 1..Len(SelectSeq([i \in 1..Len(typegenCalls) |-> i],
                                LAMBDA i : ListenerMatches(typegenCalls[i], uri)))
                     |-> [type |-> "save", uri |-> uri,
                          call |-> SelectSeq([i \in 1..Len(typegenCalls) |-> i],
                                     LAMBDA i :
                                       ListenerMatches(typegenCalls[i], uri))[k]]],
                  "", NoReply)
    /\ UNCHANGED <<documentsCache, displayedMachine, openDocuments, asyncVars,
                   editorText, typegenService, executing, fileSystem,
                   received, clock>>

\* lines 21-22, 54: the timer of 3 seconds of a call fires and resolves its
\* promise
Timeout(i) ==
    /\ PendingThen = {}
    /\ i \in 1..Len(typegenCalls)
    /\ typegenCalls[i].timeout = "pending"
    /\ typegenCalls' =
           [typegenCalls EXCEPT
               ![i] = RaceSettled([typegenCalls[i] EXCEPT
                                      !.timeout = "resolved"])]
    /\ out' = Out("timeout", typegenCalls[i].typegenUri, <<>>, "", NoReply)
    /\ UNCHANGED <<documentsCache, displayedMachine, openDocuments, asyncVars,
                   editorText, typegenService, executing, fileSystem,
                   received, clock>>

\* line 56: then(dispose) of a settled race runs and unregisters the
\* listener
Dispose(i) ==
    /\ i \in PendingThen
    /\ typegenCalls' =
           [typegenCalls EXCEPT ![i] = [typegenCalls[i] EXCEPT
                                           !.listener = "disposed",
                                           !.thenRan = TRUE]]
    /\ out' = Out("dispose", typegenCalls[i].typegenUri, <<>>, "", NoReply)
    /\ UNCHANGED <<documentsCache, displayedMachine, openDocuments, asyncVars,
                   editorText, typegenService, executing, fileSystem,
                   received, clock>>

ListenerNext ==
    \/ \E uri \in Uris : CreateTypegenFile(uri)
    \/ \E uri \in OpenedUris : DidOpenTextDocument(uri)
    \/ \E i \in 1..MaxCalls : Timeout(i)
    \/ \E i \in 1..MaxCalls : Dispose(i)

ListenerSpec == Init /\ [][ListenerNext]_vars

\* a timer that was started fires and the microtask of a settled race runs
ListenerFairSpec ==
    /\ ListenerSpec
    /\ WF_vars(\E i \in 1..MaxCalls : Timeout(i))
    /\ WF_vars(\E i \in 1..MaxCalls : Dispose(i))

Next ==
    \/ \E uri \in Documents, text \in Texts : HandleDocumentChange(uri, text)
    \/ \E uri \in Documents : DidClose(uri)
    \/ \E uri \in Uris, i \in MachineIndexes : SetDisplayedMachine(uri, i)
    \/ ClearDisplayedMachine
    \/ \E uri \in Uris, i \in MachineIndexes : GetMachineAtIndex(uri, i)
    \/ \E path \in Paths : GetNodePosition(path)

Spec == Init /\ [][Next]_vars

(***************************************************************************)
(* Vocabulary of the properties.                                           *)
(***************************************************************************)
\* o is the outcome of a reconciliation in which the extractor found something
Reconciled(o) == o.op = "handleDocumentChange" /\ o.path # "nothing"

\* the displayed machine is machine idx of document uri
Displays(uri) == displayedMachine # <<>> /\ displayedMachine[1].uri = uri

DisplayedIndex == displayedMachine[1].machineIndex

(***************************************************************************)
(* C1: every reconciliation whose extraction yields something publishes    *)
(* exactly one diagnostics batch for the document, whatever the displayed  *)
(* machine's state; on the exception path that batch is empty.             *)
(***************************************************************************)
C1_OneDiagnosticsBatchPerPass ==
    Reconciled(out) =>
        LET batches == NotesOf(out, "diagnostics") IN
        /\ Len(batches) = 1
        /\ batches[1].uri = out.uri
        /\ out.path = "caught" => ~batches[1].computed

(***************************************************************************)
(* C2: when the extractor yields nothing the reconciliation stops: the     *)
(* cache (text and extraction results of every document) is exactly as     *)
(* before and nothing is sent.                                             *)
(***************************************************************************)
C2_NothingExtractedChangesNothing ==
    [][(out'.op = "handleDocumentChange" /\ out'.path = "nothing")
          => (documentsCache' = documentsCache /\ out'.sent = <<>>)]_vars

\* a parse gap was handled for a document that has a cache entry
C2_Witness ==
    /\ out.op = "handleDocumentChange"
    /\ out.path = "nothing"
    /\ out.uri \in DOMAIN documentsCache
    /\ documentsCache[out.uri].extractionResults # <<>>

(***************************************************************************)
(* C3: for a document with N non-ignored machines of which exactly one is  *)
(* invalid, the entry written has N results in discovery order; the        *)
(* invalid one carries a configError and no types, each other one carries  *)
(* no configError and, when typed, its typegen data.                       *)
(***************************************************************************)
NonIgnored(text) ==
    SelectSeq(getMachineNodesFromFile(text), LAMBDA m : ~m.ignored)

C3_OneInvalidMachineIsIsolated ==
    Reconciled(out) =>
        LET entry == documentsCache[out.uri]
            ms == NonIgnored(entry.documentText)
            ers == entry.extractionResults
        IN  Cardinality({i \in 1..Len(ms) : ~ms[i].valid}) = 1 =>
              /\ Len(ers) = Len(ms)
              /\ \A i \in 1..Len(ms) :
                    /\ ers[i].machineResult = ms[i]
                    /\ ~ms[i].valid =>
                          (ers[i].configError # "" /\ ers[i].types = <<>>)
                    /\ ms[i].valid =>
                          /\ ers[i].configError = ""
                          /\ ms[i].typed =>
                                /\ Len(ers[i].types) = 1
                                /\ ers[i].types[1].data.index = i - 1
                                /\ ers[i].types[1].data.surface = ms[i].struct
                                /\ ers[i].types[1].typesNode.value = ms[i].tnv

\* a batch of two results was written: one invalid, its sibling typed and valid
C3_Witness ==
    /\ Reconciled(out)
    /\ LET ers == documentsCache[out.uri].extractionResults IN
       /\ Len(ers) = 2
       /\ Cardinality({i \in 1..2 : ers[i].configError # ""}) = 1
       /\ \E i \in 1..2 : ers[i].types # <<>>

(***************************************************************************)
(* C4: a configError in one machine never blocks the rest of the pass: a   *)
(* change of the in-sync typegen data of a sibling still produces          *)
(* typesUpdated, also when the machine in error is the displayed one.      *)
(***************************************************************************)
PrevWritableData(uri) ==
    IF uri \in DOMAIN documentsCache
    THEN WritableData(documentsCache[uri].extractionResults)
    ELSE <<>>

C4_ConfigErrorDoesNotBlockTypes ==
    [][LET
           HasConfigError(extractionResults) ==
               \E i \in 1..Len(extractionResults) : extractionResults[i].configError # ""
       IN
       (/\ Reconciled(out')
        /\ out'.path # "caught"
        /\ HasConfigError(documentsCache'[out'.uri].extractionResults)
        /\ WritableData(documentsCache'[out'.uri].extractionResults) # <<>>
        /\ WritableData(documentsCache'[out'.uri].extractionResults)
             # PrevWritableData(out'.uri))
          => NotesOf(out', "typesUpdated") # <<>>]_vars

(***************************************************************************)
(* C5: a pass sends typesUpdated if and only if the in-sync typegen data   *)
(* of the new batch differs from that of the previously cached batch       *)
(* (none, on the first pass), also when it becomes empty.                  *)
(***************************************************************************)
C5_TypesUpdatedIffInSyncChanged ==
    [][Reconciled(out') =>
          ((NotesOf(out', "typesUpdated") # <<>>)
             <=> (WritableData(documentsCache'[out'.uri].extractionResults)
                    # PrevWritableData(out'.uri)))]_vars

(***************************************************************************)
(* C6: the types of a typesUpdated notification are exactly the typegen    *)
(* data of the in-sync machines of the current batch.                      *)
(***************************************************************************)
C6_PayloadIsInSyncTypes ==
    (out.op = "handleDocumentChange" /\ NotesOf(out, "typesUpdated") # <<>>) =>
        LET ers == documentsCache[out.uri].extractionResults
            insync == {i \in 1..Len(ers) :
                          /\ ers[i].types # <<>>
                          /\ areTypesWritable(ers[i].types[1])}
            types == NotesOf(out, "typesUpdated")[1].types
        IN  /\ Len(types) = Cardinality(insync)
            /\ \A i \in insync :
                  types[Cardinality({j \in insync : j <= i})] = ers[i].types[1]

\* C6 as amended: the types are the typegen data of every typed machine of
\* the current batch that has no configError, in index order, in sync or
\* not; at least one of them is in sync.
C6_PayloadIsAllTypes ==
    (out.op = "handleDocumentChange" /\ NotesOf(out, "typesUpdated") # <<>>) =>
        LET ers == documentsCache[out.uri].extractionResults
            typed == {i \in 1..Len(ers) : ers[i].types # <<>>}
            note == NotesOf(out, "typesUpdated")
        IN  /\ Len(note) = 1
            /\ note[1].uri = out.uri
            /\ Len(note[1].types) = Cardinality(typed)
            /\ \A i \in typed :
                  note[1].types[Cardinality({j \in typed : j <= i})]
                      = ers[i].types[1]
            /\ \E i \in typed : areTypesWritable(ers[i].types[1])

\* a typesUpdated went out that carries the types of an out-of-sync machine
C6_Witness ==
    /\ out.op = "handleDocumentChange"
    /\ NotesOf(out, "typesUpdated") # <<>>
    /\ LET types == NotesOf(out, "typesUpdated")[1].types IN
       \E j \in 1..Len(types) : ~areTypesWritable(types[j])

(***************************************************************************)
(* C7: when the displayed machine belongs to the reconciled document and   *)
(* has no configError, displayedMachineUpdated is sent if and only if its  *)
(* anonymized configuration differs from that of the entry at the same     *)
(* index of the previous cache; none is sent for another document.         *)
(***************************************************************************)
\* the slot of the previous cache at idx (<<>>: there is none)
PrevSlot(uri, idx) ==
    IF uri \in DOMAIN documentsCache
         /\ idx < Len(documentsCache[uri].extractionResults)
    THEN <<documentsCache[uri].extractionResults[idx + 1]>>
    ELSE <<>>

\* a pass over the displayed document whose new batch holds the displayed slot
DisplayedPass ==
    /\ Reconciled(out')
    /\ Displays(out'.uri)
    /\ DisplayedIndex < Len(documentsCache'[out'.uri].extractionResults)

NewSlot == documentsCache'[out'.uri].extractionResults[DisplayedIndex + 1]

AnonymizedDiffers ==
    /\ PrevSlot(out'.uri, DisplayedIndex) # <<>>
    /\ toConfig(PrevSlot(out'.uri, DisplayedIndex)[1].machineResult, "anonymize")
         # toConfig(NewSlot.machineResult, "anonymize")

UpdateSent == NotesOf(out', "displayedMachineUpdated") # <<>>

NotDisplayedPass == out'.op = "handleDocumentChange" /\ ~Displays(out'.uri)

C7_UpdateIffAnonymizedDiffers ==
    [][/\ (DisplayedPass /\ NewSlot.configError = "")
            => (UpdateSent <=> AnonymizedDiffers)
       /\ NotDisplayedPass => ~UpdateSent]_vars

\* C7 as amended: ... if and only if the machine has a configuration (its
\* call has a definition) and the anonymized configurations differ.
C7_UpdateIffConfigExistsAndDiffers ==
    [][/\ (DisplayedPass /\ NewSlot.configError = "")
            => (UpdateSent
                  <=> (/\ toConfig(NewSlot.machineResult, "plain").defined
                       /\ AnonymizedDiffers))
       /\ NotDisplayedPass => ~UpdateSent]_vars

\* a live update of the displayed machine went out
C7_Witness ==
    /\ Reconciled(out)
    /\ Displays(out.uri)
    /\ NotesOf(out, "displayedMachineUpdated") # <<>>

(***************************************************************************)
(* C8: for the displayed machine across two successive passes: a new       *)
(* configError sends extractionError with the message and no update; the   *)
(* error-clear is sent exactly when the machine had a configError and has  *)
(* none now; with no configError before or now, no extractionError.        *)
(***************************************************************************)
ErrorsSent == NotesOf(out', "extractionError")

C8_ErrorAndErrorClear ==
    [][LET
           ClearSent ==
               \E i \in 1..Len(ErrorsSent) : ErrorsSent[i] = ExtractionError("undefined")
       IN
       LET
           NowError == NewSlot.configError # ""
       IN
       LET
           PrevError == PrevSlot(out'.uri, DisplayedIndex)[1].configError # ""
       IN
       LET
           SuccessivePass == DisplayedPass /\ PrevSlot(out'.uri, DisplayedIndex) # <<>>
       IN
       /\ (SuccessivePass /\ ~PrevError /\ NowError)
            => (/\ ErrorsSent = <<ExtractionError(NewSlot.configError)>>
                /\ NewSlot.configError # "undefined"
                /\ ~UpdateSent)
       /\ out'.op = "handleDocumentChange"
            => (ClearSent <=> (SuccessivePass /\ PrevError /\ ~NowError))
       /\ (SuccessivePass /\ ~PrevError /\ ~NowError)
            => ErrorsSent = <<>>]_vars

\* an error-clear went out for the displayed machine
C8_Witness ==
    /\ Reconciled(out)
    /\ Displays(out.uri)
    /\ \E i \in 1..Len(out.sent) : out.sent[i] = ExtractionError("undefined")

(***************************************************************************)
(* C9: a displayed-machine reference whose index does not exist in the     *)
(* document's extraction results is treated as not found: the pass         *)
(* replaces the cache and publishes the computed diagnostics without an    *)
(* extractionError, and getNodePosition returns nothing.                   *)
(***************************************************************************)
C9_MissingIndexIsTolerated ==
    /\ (/\ Reconciled(out)
        /\ Displays(out.uri)
        /\ DisplayedIndex >= Len(documentsCache[out.uri].extractionResults))
          => /\ NotesOf(out, "extractionError") = <<>>
             /\ NotesOf(out, "diagnostics") = <<Diagnostics(out.uri, TRUE)>>
    /\ (/\ out.op = "getNodePosition"
        /\ displayedMachine # <<>>
        /\ displayedMachine[1].uri \in DOMAIN documentsCache
        /\ DisplayedIndex
             >= Len(documentsCache[displayedMachine[1].uri].extractionResults))
          => out.reply = Undefined

(***************************************************************************)
(* C10: getMachineAtIndex for a cached document with k >= 1 results and an *)
(* index >= k fails with the not-found error that names the index and k.   *)
(***************************************************************************)
C10_IndexPastEndIsNotFound ==
    LET
        \* line 594: `Machine ${machineIndex} was not found. This document has only
        \* ${count} machine(s)`
        NotFoundMessage(machineIndex, count) ==
            [text |-> "Machine was not found. This document has only machine(s)",
             machineIndex |-> machineIndex, count |-> count]
    IN
    (/\ out.op = "getMachineAtIndex"
     /\ out.uri \in DOMAIN documentsCache
     /\ Len(documentsCache[out.uri].extractionResults) >= 1
     /\ out.arg >= Len(documentsCache[out.uri].extractionResults))
       => out.reply
            = Failure(NotFoundMessage(
                  out.arg, Len(documentsCache[out.uri].extractionResults)))

(***************************************************************************)
(* C11: a close removes the document's cache entry and its cached          *)
(* settings, and only a reconciliation brings an entry back; a             *)
(* getMachineAtIndex or getMachineAtCursorPosition for a document with no  *)
(* cache entry, or with an entry of zero extraction results, fails with    *)
(* the no-machines error and changes nothing.                              *)
(***************************************************************************)
C11_ClosedDocumentHasNoMachines ==
    [][LET
           NoMachinesCached(uri) ==
               \/ uri \notin DOMAIN documentsCache
               \/ documentsCache[uri].extractionResults = <<>>
       IN
       /\ out'.op = "didClose"
            => (/\ out'.uri \notin DOMAIN documentsCache'
                /\ out'.uri \notin DOMAIN documentSettings')
       /\ out'.op # "handleDocumentChange"
            => DOMAIN documentsCache' \subseteq DOMAIN documentsCache
       /\ out'.op # "didChangeContent"
            => DOMAIN documentSettings' \subseteq DOMAIN documentSettings
       /\ (/\ out'.op \in {"getMachineAtIndex", "getMachineAtCursorPosition"}
           /\ NoMachinesCached(out'.uri))
            => (/\ out'.reply = Failure(NoMachinesMessage)
                /\ documentsCache' = documentsCache)]_vars

\* a machine is asked for after the document was reconciled and then closed
\* with no reconciliation in flight
C11_Witness ==
    /\ out.op \in {"getMachineAtIndex", "getMachineAtCursorPosition"}
    /\ out.uri \in Documents \ openDocuments
    /\ promises # <<>>
    /\ inFlight = <<>>
    /\ out.uri \notin DOMAIN documentsCache
    /\ out.uri \notin DOMAIN documentSettings
    /\ out.reply = Failure(NoMachinesMessage)

(***************************************************************************)
(* C12: once a document has been closed and no later content change has    *)
(* arrived for it, the cache holds no entry for it, also when the close    *)
(* is handled while a reconciliation of the document is suspended at its   *)
(* await.                                                                  *)
(***************************************************************************)
C12_ClosedDocumentIsNotCached ==
    \A uri \in Documents \ openDocuments : uri \notin DOMAIN documentsCache

(***************************************************************************)
(* C13: every handler that reads the document cache, other than            *)
(* getMachineAtIndex and getMachineAtCursorPosition, treats a missing      *)
(* cache entry of the document it addresses as a no-op: it replies with an *)
(* empty or absent result, changes no state and does not fault.  Stated    *)
(* for getTsTypesAndEdits, getNodePosition and applyMachineEdits.          *)
(***************************************************************************)
C13_MissingEntryIsNoOp ==
    [][LET
           EmptyReplies ==
               {Undefined, NoReply,
                [kind |-> "ok", types |-> <<>>, edits |-> <<>>],
                [kind |-> "ok", textEdits |-> <<>>]}
       IN
       LET
           \* the step addresses, through the displayed-machine reference, a document
           \* that has no cache entry
           DisplayedDocumentMissing ==
               /\ displayedMachine # <<>>
               /\ displayedMachine[1].uri \notin DOMAIN documentsCache
       IN
       (\/ out'.op = "getTsTypesAndEdits" /\ out'.uri \notin DOMAIN documentsCache
        \/ out'.op = "getNodePosition" /\ DisplayedDocumentMissing
        \/ out'.op = "applyMachineEdits" /\ DisplayedDocumentMissing)
          => (/\ out'.reply \in EmptyReplies
              /\ out'.sent = <<>>
              /\ documentsCache' = documentsCache
              /\ displayedMachine' = displayedMachine)]_vars

(***************************************************************************)
(* C14: applyMachineEdits requested while no machine is displayed fails    *)
(* with an error and leaves the cache and the displayed-machine reference  *)
(* unchanged; the reference is exactly what the last setDisplayedMachine   *)
(* or clearDisplayedMachine made it, and a successful applyMachineEdits    *)
(* edits the document and the slot it names.                               *)
(***************************************************************************)
Applied == out'.op = "applyMachineEdits" /\ out'.reply.kind = "ok"

C14_EditsNeedDisplayedMachine ==
    [][LET
           \* the slots of document uri whose content the step changes
           ChangedSlots(uri) ==
               {i \in 1..Len(documentsCache[uri].extractionResults) :
                   documentsCache'[uri].extractionResults[i]
                       # documentsCache[uri].extractionResults[i]}
       IN
       /\ (out'.op = "applyMachineEdits" /\ displayedMachine = <<>>)
            => (/\ out'.reply = Failure(NoDisplayedMachineMessage)
                /\ documentsCache' = documentsCache
                /\ displayedMachine' = displayedMachine)
       /\ out'.op = "setDisplayedMachine"
            => displayedMachine'
                 = <<[uri |-> out'.uri, machineIndex |-> out'.arg]>>
       /\ out'.op = "clearDisplayedMachine" => displayedMachine' = <<>>
       /\ out'.op \notin {"setDisplayedMachine", "clearDisplayedMachine"}
            => displayedMachine' = displayedMachine
       /\ Applied
            => (/\ displayedMachine # <<>>
                /\ out'.reply.textEdits[1].uri = displayedMachine[1].uri
                /\ out'.reply.textEdits[1].range
                     = documentsCache[displayedMachine[1].uri]
                         .extractionResults[DisplayedIndex + 1].machineResult.at
                /\ ChangedSlots(displayedMachine[1].uri)
                     \subseteq {DisplayedIndex + 1})]_vars

\* an edit was asked for after the reference was cleared, with a document cached
C14_Witness ==
    /\ out.op = "applyMachineEdits"
    /\ out.reply = Failure(NoDisplayedMachineMessage)
    /\ documentsCache # <<>>

(***************************************************************************)
(* C15: a successful applyMachineEdits returns exactly one replace edit    *)
(* for the displayed document and changes only the machineResult of the    *)
(* cache slot at the displayed index: the text of the entry, every other   *)
(* slot, that slot's types and configError, the other documents and the    *)
(* displayed-machine reference are unchanged, and nothing is sent.         *)
(***************************************************************************)
C15_EditChangesOneMachineResult ==
    [][Applied =>
          LET uri == displayedMachine[1].uri
              before == documentsCache[uri]
              after == documentsCache'[uri]
          IN  /\ Len(out'.reply.textEdits) = 1
              /\ out'.reply.textEdits[1].type = "replace"
              /\ out'.reply.textEdits[1].uri = uri
              /\ out'.sent = <<>>
              /\ displayedMachine' = displayedMachine
              /\ DOMAIN documentsCache' = DOMAIN documentsCache
              /\ \A u \in DOMAIN documentsCache \ {uri} :
                    documentsCache'[u] = documentsCache[u]
              /\ after.documentText = before.documentText
              /\ Len(after.extractionResults) = Len(before.extractionResults)
              /\ \A i \in 1..Len(before.extractionResults) :
                    /\ after.extractionResults[i].types
                         = before.extractionResults[i].types
                    /\ after.extractionResults[i].configError
                         = before.extractionResults[i].configError
                    /\ i # DisplayedIndex + 1
                         => after.extractionResults[i]
                              = before.extractionResults[i]]_vars

\* an edit changed the structure of the displayed machine of a document that
\* holds two machines, one of them typed
C15_Witness ==
    /\ out.op = "applyMachineEdits"
    /\ out.reply.kind = "ok"
    /\ displayedMachine # <<>>
    /\ LET ers == documentsCache[displayedMachine[1].uri].extractionResults IN
       /\ Len(ers) = 2
       /\ ers[DisplayedIndex + 1].machineResult.struct = 1
       /\ \E i \in 1..2 : ers[i].types # <<>>

(***************************************************************************)
(* C18: getMachineAtCursorPosition returns the machine with the lowest     *)
(* cache index whose definition range or options range contains the        *)
(* position, with that index; it fails with the not-found error naming the *)
(* position when no cached machine contains it, and with the no-machines   *)
(* error when the document has no entry or no extraction results.          *)
(***************************************************************************)
C18_LowestMachineAtCursor ==
    LET
        Lowest(S) == CHOOSE i \in S : \A j \in S : i <= j
    IN
    LET
        Containing(extractionResults, position) ==
            LET
                \* the position is inside the source range, bounds included
                InRange(loc, pos) ==
                    /\ loc # <<>>
                    /\ pos.line >= loc[1].start.line - 1
                    /\ pos.line <= loc[1].end.line - 1
                    /\ pos.line = loc[1].start.line - 1
                         => pos.column >= loc[1].start.column
                    /\ pos.line = loc[1].end.line - 1
                         => pos.column <= loc[1].end.column
            IN
            {i \in 1..Len(extractionResults) :
                \/ InRange(DefinitionLoc(extractionResults[i].machineResult), position)
                \/ InRange(OptionsLoc(extractionResults[i].machineResult), position)}
    IN
    out.op = "getMachineAtCursorPosition" =>
        IF out.uri \notin DOMAIN documentsCache
        THEN out.reply = Failure(NoMachinesMessage)
        ELSE LET ers == documentsCache[out.uri].extractionResults
                 at == Containing(ers, out.arg)
             IN  IF ers = <<>> THEN out.reply = Failure(NoMachinesMessage)
                 ELSE IF at = {}
                 THEN out.reply = Failure(PositionNotFoundMessage(out.arg))
                 ELSE /\ out.reply.kind = "ok"
                      /\ out.reply.machineIndex = Lowest(at) - 1
                      /\ out.reply.config
                           = toConfig(ers[Lowest(at)].machineResult, "hash")

(***************************************************************************)
(* C19: the machine stored at cache index i of a document is the i-th      *)
(* call, in source order, among the calls not marked ignored: an ignored   *)
(* call never occupies a slot, also after applyMachineEdits re-extracted   *)
(* a slot.                                                                 *)
(***************************************************************************)
C19_SlotsHoldNonIgnoredInOrder ==
    \A uri \in DOMAIN documentsCache :
        LET ers == documentsCache[uri].extractionResults
            calls == NonIgnored(documentsCache[uri].documentText)
        IN  /\ Len(ers) = Len(calls)
            /\ \A i \in 1..Len(ers) :
                  /\ ~ers[i].machineResult.ignored
                  /\ ers[i].machineResult.at = calls[i].at

(***************************************************************************)
(* C20: a document whose URI carries the suffix of generated files is      *)
(* excluded from extraction and typegen: saving it requests no types and   *)
(* returns no edits, a content change to it creates no cache entry and     *)
(* sends no typesUpdated, and no generated file is created for it.         *)
(***************************************************************************)
C20_GeneratedFilesAreExcluded ==
    /\ \A uri \in DOMAIN documentsCache : ~IncludesTypegen(uri)
    /\ (out.op = "handleDocumentChange" /\ IncludesTypegen(out.uri))
          => NotesOf(out, "typesUpdated") = <<>>
    /\ (out.op = "willSaveTextDocument" /\ IncludesTypegen(out.uri))
          => (out.sent = <<>> /\ out.reply.edits = <<>>)
    /\ \A i \in 1..Len(out.sent) :
          out.sent[i].type = "createFile" => ~IncludesTypegen(out.sent[i].source)

(***************************************************************************)
(* The name-addition edit.                                                 *)
(***************************************************************************)
\* the machine and the text the last code action was computed from
CodeActionMachine == documentsCache[out.uri].extractionResults[1].machineResult
CodeActionEdits == out.reply.actions[1].edits

\* the code action was asked for a name
NameRequested == out.op = "codeAction" /\ out.arg # <<>>

\* the keys of the category of a type in the options of a machine
KeysOf(machine, type) ==
    {OptionsCategory(machine, type)[1].properties[p].key :
        p \in 1..Len(OptionsCategory(machine, type)[1].properties)}

\* C16: the name-addition edit for (category, name) is: no edit when the
\* machine has no definition location; one zero-width insertion of a new
\* options object at the end of the definition when there is no options
\* object; one replacement of the options object that puts the category
\* holding the name first when the options lack the category; one replacement
\* of the category object that puts the name first when the category lacks
\* it; no edit when the name is present.  The edited text is the original
\* text with tokens added at one place.
C16_NameAdditionEdit ==
    LET
        \* edited is text with tokens added at one place
        IsInsertion(text, edited) ==
            /\ Len(edited) >= Len(text)
            /\ \E p \in 0..Len(text) :
                  /\ SubSeq(edited, 1, p) = SubSeq(text, 1, p)
                  /\ SubSeq(edited, Len(edited) - (Len(text) - p) + 1, Len(edited))
                         = SubSeq(text, p + 1, Len(text))
    IN
    LET
        \* text with the tokens ins put after its first p tokens
        InsertAt(text, p, ins) ==
            SubSeq(text, 1, p) \o ins \o SubSeq(text, p + 1, Len(text))
    IN
    LET
        CodeActionText == documentsCache[out.uri].documentText
    IN
    NameRequested =>
        LET machine == CodeActionMachine
            text == CodeActionText
            type == out.arg[1].type
            name == out.arg[1].name
            edits == CodeActionEdits
            property == <<"'">> \o name \o <<"'", ":", "fn">>
        IN  /\ Len(edits) <= 1
            /\ edits # <<>> => IsInsertion(text, ApplyTextEdit(text, edits[1]))
            /\ CASE machine.definition = <<>> -> edits = <<>>
                 [] machine.definition # <<>> /\ machine.options = <<>> ->
                      /\ Len(edits) = 1
                      /\ edits[1].range.start = edits[1].range.end
                      /\ edits[1].range.end = machine.definition[1].loc.end
                      /\ edits[1].newText =
                             <<",", "{", type, ":", "{">> \o property
                                 \o <<"}", "}">>
                 [] /\ machine.definition # <<>> /\ machine.options # <<>>
                    /\ OptionsCategory(machine, type) = <<>> ->
                      /\ Len(edits) = 1
                      /\ edits[1].range = machine.options[1].loc
                      /\ ApplyTextEdit(text, edits[1]) =
                             InsertAt(text, machine.options[1].loc.start,
                                      <<type, ":", "{">> \o property
                                          \o <<"}", ",">>)
                 [] /\ machine.definition # <<>> /\ machine.options # <<>>
                    /\ OptionsCategory(machine, type) # <<>>
                    /\ name \notin KeysOf(machine, type) ->
                      /\ Len(edits) = 1
                      /\ edits[1].range = OptionsCategory(machine, type)[1].loc
                      /\ ApplyTextEdit(text, edits[1]) =
                             InsertAt(text,
                                      OptionsCategory(machine, type)[1].loc.start,
                                      property \o <<",">>)
                 [] OTHER -> edits = <<>>

\* a name was added to a category that held another name
C16_Witness ==
    /\ NameRequested
    /\ CodeActionEdits # <<>>
    /\ OptionsCategory(CodeActionMachine, out.arg[1].type) # <<>>
    /\ KeysOf(CodeActionMachine, out.arg[1].type) # {}

\* C17: after the name-addition edit for (category, name) was applied and the
\* resulting text reconciled, the same request yields no edit.
C17_SecondRequestIsNoEdit ==
    [][(/\ out.op = "applyCodeAction"
        /\ out'.op = "codeAction"
        /\ out'.arg = out.arg)
          => out'.reply.actions[1].edits = <<>>]_vars

(***************************************************************************)
(* Exceptions of a reconciliation.                                         *)
(***************************************************************************)
\* C21: an exception in a reconciliation is caught: the pass publishes one
\* empty diagnostics batch for the document, sends one extractionError if and
\* only if the document is the displayed one, sends nothing else, and leaves
\* the cache entries of the other documents as they were.
C21_ExceptionIsCaught ==
    [][(out'.op = "handleDocumentChange" /\ out'.path = "caught") =>
          /\ NotesOf(out', "diagnostics") = <<Diagnostics(out'.uri, FALSE)>>
          /\ out'.sent[Len(out'.sent)] = Diagnostics(out'.uri, FALSE)
          /\ Len(NotesOf(out', "extractionError")) =
                 IF Displays(out'.uri) THEN 1 ELSE 0
          /\ Len(out'.sent) = 1 + Len(NotesOf(out', "extractionError"))
          /\ DOMAIN documentsCache' \ {out'.uri}
                 = DOMAIN documentsCache \ {out'.uri}
          /\ \A u \in DOMAIN documentsCache \ {out'.uri} :
                 documentsCache'[u] = documentsCache[u]]_vars

\* a pass on a document that is not displayed threw while another document
\* was cached
C21_Witness ==
    /\ out.op = "handleDocumentChange" /\ out.path = "caught"
    /\ ~Displays(out.uri)
    /\ displayedMachine # <<>>
    /\ DOMAIN documentsCache \ {out.uri} # {}

(***************************************************************************)
(* Reconciliations that overlap.                                           *)
(***************************************************************************)
\* C22: latest wins per document: once the reconciliations of a document
\* have finished, in whatever order their settings lookups completed, the
\* cache entry holds the text of the later content change; and the previous
\* batch a pass diffs against is the entry the pass before it wrote.
C22_LatestWins ==
    [][LET
           \* the reconciliation that resumes in this step
           Resumed == inFlight[CHOOSE j \in Runnable : \A k \in Runnable : j <= k]
       IN
       LET
           \* once the reconciliations of an open document have finished, its cache
           \* entry holds the text of its last content change
           LatestWins ==
               LET
                   \* no reconciliation of uri is suspended
                   Settled(uri) == \A i \in 1..Len(inFlight) : inFlight[i].uri # uri
               IN
               \A uri \in openDocuments :
                   (/\ Settled(uri)
                    /\ uri \in DOMAIN editorText
                    /\ extractMachinesFromFile(editorText[uri]) # <<>>)
                       => /\ uri \in DOMAIN documentsCache
                          /\ documentsCache[uri].documentText = editorText[uri]
       IN
       /\ LatestWins'
       /\ (Runnable # {} /\ Len(inFlight') < Len(inFlight))
             => Resumed.previouslyCachedDocument = CacheGet(Resumed.uri)]_vars

(***************************************************************************)
(* The cached text and the cached results.                                 *)
(***************************************************************************)
\* C23: every machine result of a cache entry was extracted from the
\* documentText of that entry, so its ranges index into that text; also
\* after applyMachineEdits.
C23_ResultsComeFromCachedText ==
    \A uri \in DOMAIN documentsCache :
        LET ers == documentsCache[uri].extractionResults
            calls == getMachineNodesFromFile(documentsCache[uri].documentText)
        IN  \A i \in 1..Len(ers) :
                \E j \in 1..Len(calls) : ers[i].machineResult = calls[j]

(***************************************************************************)
(* Reconciling the same text again.                                        *)
(***************************************************************************)
\* the pass that follows the last one when the text did not change
SecondPass ==
    Reconcile(CacheGet(out.uri), out.uri,
              documentsCache[out.uri].documentText, displayedMachine)

\* C24: reconciling a document again with the text it was just reconciled
\* with writes an equal cache entry and sends no typesUpdated and no
\* displayedMachineUpdated.
C24_SameTextIsNoOp ==
    Reconciled(out) =>
        /\ SecondPass.entry = CacheGet(out.uri)
        /\ \A i \in 1..Len(SecondPass.sent) :
              SecondPass.sent[i].type
                  \notin {"typesUpdated", "displayedMachineUpdated"}

\* a second pass over a displayed document with in-sync types ran to its end
\* and sent neither notification
C24_Witness ==
    /\ Reconciled(out) /\ out.path = "completed"
    /\ Displays(out.uri)
    /\ WritableData(documentsCache[out.uri].extractionResults) # <<>>
    /\ NotesOf(out, "typesUpdated") = <<>>
    /\ NotesOf(out, "displayedMachineUpdated") = <<>>
    /\ SecondPass.sent = out.sent

(***************************************************************************)
(* The generated type surface.                                             *)
(***************************************************************************)
\* the names of the lines of a category, and the quoted names of a union
NamesOfLines(lines) == {lines[i].name : i \in 1..Len(lines)}
\* the machine an output with one machine was generated for
OneMachineOutput ==
    /\ out.op = "getTypegenOutput"
    /\ Len(out.arg.machines) = 1
    /\ out.arg.machines[1].hasTypesNode /\ ~out.arg.machines[1].throws

\* C25: for each of actions, services, guards and delays the
\* missing-implementations entry is the set of introspected names minus the
\* names the options hold for the category, `never` when that set is empty;
\* invokeSrcNameMap maps every introspected service name n to done.invoke.n.
C25_MissingImplementations ==
    LET
        \* the missing-implementations entry names exactly the introspected names
        \* that the options lack, and is `never` when there are none
        MissingIs(entry, lines, inOptions) ==
            LET
                QuotedNames(union) ==
                    {union[i].text[1] : i \in {j \in 1..Len(union) : union[j].kind = "quoted"}}
            IN
            IF NamesOfLines(lines) \ inOptions = {}
            THEN entry = <<Bare("never")>>
            ELSE /\ \A i \in 1..Len(entry) : entry[i].kind = "quoted"
                 /\ QuotedNames(entry) = NamesOfLines(lines) \ inOptions
                 /\ Len(entry) = Cardinality(NamesOfLines(lines) \ inOptions)
    IN
    OneMachineOutput =>
        LET machine == out.arg.machines[1]
            lines == machine.introspectResult
            entry == out.reply.Typegen[1]
        IN  /\ MissingIs(entry.missingImplementations.actions, lines.actions,
                         machine.actionsInOptions)
            /\ MissingIs(entry.missingImplementations.services, lines.services,
                         machine.servicesInOptions)
            /\ MissingIs(entry.missingImplementations.guards, lines.guards,
                         machine.guardsInOptions)
            /\ MissingIs(entry.missingImplementations.delays, lines.delays,
                         machine.delaysInOptions)
            /\ Len(entry.invokeSrcNameMap) = Len(lines.services)
            /\ \A l \in 1..Len(lines.services) :
                  entry.invokeSrcNameMap[l] =
                      [key |-> lines.services[l].name,
                       value |-> <<"done.invoke", ".", lines.services[l].name>>]

\* a machine that invokes doThing and has no services option, with an action
\* its options implement
C25_Witness ==
    /\ OneMachineOutput
    /\ NamesOfLines(out.arg.machines[1].introspectResult.services) = {"doThing"}
    /\ out.arg.machines[1].servicesInOptions = {}
    /\ out.reply.Typegen[1].missingImplementations.services
           = <<Quoted(<<"doThing">>)>>
    /\ out.arg.machines[1].actionsInOptions = {"a1"}
    /\ out.reply.Typegen[1].missingImplementations.actions
           = <<Quoted(<<"a2">>)>>

\* the events of a sequence in the order of their first occurrence
RECURSIVE FirstOccurrences(_)
FirstOccurrences(events) ==
    IF events = <<>> THEN <<>>
    ELSE <<Head(events)>>
             \o FirstOccurrences(SelectSeq(Tail(events),
                                           LAMBDA e : e # Head(events)))

\* C26: for every eventsCausing line the rendered union lists each distinct
\* event name once, in the order of its first occurrence among the events of
\* the line; a line without events renders as `string`.
C26_UnionInFirstSeenOrder ==
    out.op = "displayEventsCausing" =>
        /\ Len(out.reply.lines) = Len(out.arg)
        /\ \A l \in 1..Len(out.arg) :
              LET union == out.reply.lines[l].union
                  first == FirstOccurrences(out.arg[l].events)
              IN  /\ out.reply.lines[l].name = out.arg[l].name
                  /\ IF out.arg[l].events = <<>>
                     THEN union = <<Bare("string")>>
                     ELSE /\ Len(union) = Len(first)
                          /\ \A e \in 1..Len(first) :
                                union[e] = Quoted(first[e])
                          /\ \A e, f \in 1..Len(union) :
                                union[e] = union[f] => e = f

\* a line that lists an event twice around another one
C26_Witness ==
    /\ out.op = "displayEventsCausing"
    /\ Len(out.arg) = 2
    /\ out.arg[1].events = <<<<"EV">>, <<"xstate.", "init">>, <<"EV">>>>
    /\ out.reply.lines[1].union
           = <<Quoted(<<"EV">>), Quoted(<<"xstate.", "init">>)>>
    /\ out.arg[2].events = <<>>

\* The shape of the one entry of an event, by the class of its name;
\* platformErrorTip says whether the entry of a platform error carries a hint.
ClassifiedOnce(event, platformErrorTip) ==
    LET
        \* the entries of the last collection that name an event
        EntriesNamed(name) ==
            {i \in 1..Len(out.reply.internalEvents) :
                out.reply.internalEvents[i].name = name}
    IN
    LET entry == out.reply.internalEvents[CHOOSE i \in EntriesNamed(event) : TRUE]
    IN  CASE inlineInvocationName(event) ->
               /\ Cardinality(EntriesNamed(event)) = 1
               /\ entry.data = "unknown"
               /\ entry.tip = "Give this service a name"
          [] ~inlineInvocationName(event) /\ StartsWith(event, "done.invoke") ->
               /\ Cardinality(EntriesNamed(event)) = 1
               /\ entry.data = "unknown"
               /\ entry.tip \notin {"none", "Give this service a name"}
          [] ~inlineInvocationName(event) /\ StartsWith(event, "error.platform") ->
               /\ Cardinality(EntriesNamed(event)) = 1
               /\ entry.data = "unknown"
               /\ (entry.tip # "none") = platformErrorTip
          [] /\ ~inlineInvocationName(event)
             /\ (StartsWith(event, "xstate.") \/ event = <<>>) ->
               /\ Cardinality(EntriesNamed(event)) = 1
               /\ entry.data = "none" /\ entry.tip = "none"
          [] OTHER -> EntriesNamed(event) = {}

\* every event of the line arrays of the last collection
CollectedFrom ==
    {EventsOfLineArrays(out.arg)[i] : i \in 1..Len(EventsOfLineArrays(out.arg))}

\* C27 as stated: every event name is classified into one shape and emitted
\* once; an inline invocation gets a data payload and the hint to name the
\* service, another invocation completion and a platform error get a data
\* payload and a hint, an internal name gets no payload, any other name is
\* omitted.
C27_EveryClassHasItsShape ==
    out.op = "collectInternalEvents" =>
        /\ \A event \in CollectedFrom : ClassifiedOnce(event, TRUE)
        /\ \A i \in 1..Len(out.reply.internalEvents) :
              out.reply.internalEvents[i].name \in CollectedFrom

\* C27, amended: as stated, but the entry of a platform error carries the
\* data payload and no hint.
C27_PlatformErrorHasNoHint ==
    out.op = "collectInternalEvents" =>
        /\ \A event \in CollectedFrom : ClassifiedOnce(event, FALSE)
        /\ \A i \in 1..Len(out.reply.internalEvents) :
              out.reply.internalEvents[i].name \in CollectedFrom

\* a platform error collected twice and an event of the user
C27_Witness ==
    /\ out.op = "collectInternalEvents"
    /\ out.arg[1][1].events = <<<<"error.platform", ".", "doThing">>, <<"EV">>>>
    /\ out.arg[2][1].events = <<<<"error.platform", ".", "doThing">>>>
    /\ Len(out.reply.internalEvents) = 1

\* C28: a machine whose type generation throws keeps its slot of the tuple,
\* marked false, and the other typed machines are generated; the tuple
\* position of a typed machine is its ordinal among the machines with a
\* types node, which is the index a save writes into its annotation.
C28_TupleSlotsMatchAnnotations ==
    LET
        \* the position in the Typegen tuple of the machine at position p of a
        \* document
        TuplePosition(machines, p) ==
            Cardinality({q \in 1..(p - 1) :
                            machines[q].typesNode /\ ~machines[q].ignored})
    IN
    LET
        \* The machines of the update event the server sends for a saved document:
        \* the calls without the ignore marker, in order.
        UpdateEventOf(machines) ==
            LET kept == SelectSeq(machines, LAMBDA machine : ~machine.ignored) IN
            [uri |-> "file:///a.ts",
             machines |-> [i \in 1..Len(kept) |->
                              PlainEventMachine(kept[i].typesNode, FALSE)]]
    IN
    /\ out.op = "getTypegenOutput" =>
          LET typed == SelectSeq(out.arg.machines,
                                 LAMBDA machine : machine.hasTypesNode)
          IN  /\ Len(out.reply.Typegen) = Len(typed)
              /\ \A i \in 1..Len(typed) :
                    out.reply.Typegen[i].typegen = ~typed[i].throws
    /\ out.op = "onWillSaveTextDocument" =>
          /\ Len(getTypegenOutput(UpdateEventOf(out.arg)))
                 = Len(SelectSeq(out.arg,
                                 LAMBDA machine :
                                     machine.typesNode /\ ~machine.ignored))
          /\ \A e \in 1..Len(out.reply.fileEdits) :
                ~out.arg[out.reply.fileEdits[e].machine].ignored =>
                    out.reply.fileEdits[e].index
                        = TuplePosition(out.arg, out.reply.fileEdits[e].machine)

(***************************************************************************)
(* Edits of the visual editor coming back as a content change.             *)
(***************************************************************************)
\* C29: after a successful applyMachineEdits, a content change of the
\* displayed document that carries the cached text with the returned
\* replacement applied sends no displayedMachineUpdated.
C29_NoEchoOfEditorEdits ==
    [][LET
           \* the cached text of the displayed document with the replacement of the
           \* last applyMachineEdits applied
           EditedText ==
               SpliceText(documentsCache[displayedMachine[1].uri].documentText,
                          out.reply.textEdits[1].range, out.reply.textEdits[1].newText)
       IN
       (/\ out.op = "applyMachineEdits" /\ out.reply.kind = "ok"
        /\ Reconciled(out')
        /\ out'.uri = displayedMachine[1].uri
        /\ documentsCache'[out'.uri].documentText = EditedText)
          => NotesOf(out', "displayedMachineUpdated") = <<>>]_vars

(***************************************************************************)
(* C30: in throttledTypegenCreationMachine a typegen file is written or     *)
(* deleted only after an entry to idle and never while the machine is in    *)
(* throttling; the flush of an entry to idle handles, for each URI that     *)
(* was received since the previous flush, exactly the last event received   *)
(* for it, and leaves eventMap empty.                                       *)
(***************************************************************************)
C30_WritesOnlyInIdle ==
    [][LET
           \* the step writes or deletes a typegen file
           TouchesFileSystem == out'.op = "executeAction"
       IN
       LET
           \* the flush started by the step handles one event for each URI received,
           \* the last one, and empties the map
           FlushHandlesLastPerUri ==
               LET
                   \* the last event of the sequence for the URI
                   LastFor(events, uri) ==
                       events[CHOOSE i \in 1..Len(events) :
                                  /\ events[i].uri = uri
                                  /\ \A j \in (i + 1)..Len(events) : events[j].uri # uri]
               IN
               LET
                   \* the URIs of a sequence of events
                   UrisOf(events) == {events[i].uri : i \in 1..Len(events)}
               IN
               out'.op = "after" =>
                   /\ UrisOf(out'.reply.events) = UrisOf(received)
                   /\ \A i \in 1..Len(out'.reply.events) :
                          /\ out'.reply.events[i] =
                                 LastFor(received, out'.reply.events[i].uri)
                          /\ \A j \in 1..Len(out'.reply.events) :
                                 out'.reply.events[j].uri = out'.reply.events[i].uri
                                     => j = i
                   /\ executing' = executing \o out'.reply.events
                   /\ typegenService'.context.eventMap = <<>>
       IN
       /\ TouchesFileSystem => typegenService.value = "idle"
       /\ FlushHandlesLastPerUri]_vars

(***************************************************************************)
(* C31: every RECEIVE_NEW_EVENT the machine accepts puts it in throttling   *)
(* with the 500 ms delay started anew; an entry to idle with its flush      *)
(* happens only when 500 ms passed since the last event was accepted, so    *)
(* none happens while events arrive less than 500 ms apart; and once events *)
(* stop arriving, every URI pending in eventMap is eventually flushed by an *)
(* entry to idle.                                                           *)
(***************************************************************************)
C31_DelayRestartsAndFlushFollows ==
    /\ [][LET
              \* the step hands an update event to the machine
              Accepted == out'.op = "xstate/update" /\ out'.path = "sent"
              \* the step enters idle and flushes
              Flushed == out'.op = "after"
          IN
          /\ Accepted => /\ typegenService'.value = "throttling"
                         /\ typegenService'.delayed = <<Delay>>
          /\ Flushed => /\ clock >= Delay
                        /\ typegenService'.value = "idle"]_vars
    /\ \A uri \in Uris :
           (\E i \in 1..Len(typegenService.context.eventMap) :
                typegenService.context.eventMap[i].uri = uri)
             ~> (/\ out.op = "after"
                 /\ typegenService.value = "idle"
                 /\ \E i \in 1..Len(out.reply.events) :
                        out.reply.events[i].uri = uri)

\* an entry to idle that flushes two pending URIs, 500 ms after the last
\* event
C31_Witness ==
    /\ out.op = "after"
    /\ typegenService.value = "idle"
    /\ Len(out.reply.events) = 2
    /\ executing = out.reply.events
    /\ clock = Delay

(***************************************************************************)
(* C32: every call of createTypegenFile eventually disposes the listener    *)
(* it registered, whether the open event of the generated document arrives  *)
(* or the timeout of 3 seconds settles the race; a listener saves a         *)
(* document only in answer to the open event of exactly its generated file  *)
(* while it is still registered; and a timeout rejects nothing and reports  *)
(* no error.                                                                *)
(***************************************************************************)
C32_ListenerIsDisposed ==
    /\ \A i \in 1..MaxCalls :
           (Len(typegenCalls) >= i)
             ~> (Len(typegenCalls) >= i /\ typegenCalls[i].listener = "disposed")
    /\ [][/\ \A k \in 1..Len(out'.sent) :
                 out'.sent[k].type = "save" =>
                     /\ out'.op = "didOpenTextDocument"
                     /\ typegenCalls[out'.sent[k].call].listener = "registered"
                     /\ typegenCalls[out'.sent[k].call].typegenUri = out'.uri
          /\ out'.op = "timeout" =>
                 /\ out'.reply = NoReply
                 /\ out'.sent = <<>>
                 /\ \A i \in 1..Len(typegenCalls') :
                        typegenCalls'[i].race \in {"pending", "fulfilled"}]_vars

\* a listener disposed by its timeout without an open event, next to one
\* disposed after it saved its generated file
C32_Witness ==
    /\ Len(typegenCalls) >= 2
    /\ \E i, j \in 1..Len(typegenCalls) :
           /\ typegenCalls[i].listener = "disposed"
           /\ typegenCalls[i].documentOpened = "pending"
           /\ typegenCalls[i].timeout = "resolved"
           /\ typegenCalls[j].listener = "disposed"
           /\ typegenCalls[j].documentOpened = "resolved"
           /\ typegenCalls[j].timeout = "pending"

====
